---- MODULE Spec2Model ----
(***************************************************************************)
(* Model of the event-to-insight backend: the SQLite storage adapter, the  *)
(* two relevance-analysis strategies, the SearchService orchestration and  *)
(* the HTTP handlers.                                                      *)
(*                                                                         *)
(* Text is modelled as a sequence of tokens.  A token stands for a maximal *)
(* run of characters that the code never looks inside, except through the  *)
(* substring relation SubstringOf and the case mapping LowerToken.  The    *)
(* whitespace characters, the comma, the sign characters and the decimal   *)
(* digits are tokens of their own, because TrimSpace, Split and Atoi do    *)
(* look at them one by one.                                                *)
(***************************************************************************)
EXTENDS Integers, Sequences, FiniteSets, TLC

\* ------------------------------------------------------------------------
\* Bounds of the model
\* ------------------------------------------------------------------------

\* number of HTTP requests the server receives in a run
MaxRequests == 2

\* number of direct calls of an analysis strategy in a run
MaxCalls == 2

\* number of direct calls of the storage adapter in a run
MaxOps == 4

\* number of submits of the frontend's search form in a run
MaxSubmits == 2

\* the connections on which requests arrive: requests on different
\* connections are handled concurrently, those on one connection one after
\* the other
Clients == { "a", "b" }

\* ------------------------------------------------------------------------
\* strings: TrimSpace, Contains, ToLower, Split, HasPrefix, Atoi
\* ------------------------------------------------------------------------

WhiteSpace == {" ", "\t", "\n", "\r"}

Digits == {"0", "1", "2", "3", "4", "5", "6", "7", "8", "9"}

DigitVal(d) ==
  CASE d = "0" -> 0 [] d = "1" -> 1 [] d = "2" -> 2 [] d = "3" -> 3
    [] d = "4" -> 4 [] d = "5" -> 5 [] d = "6" -> 6 [] d = "7" -> 7
    [] d = "8" -> 8 [] d = "9" -> 9

RECURSIVE TrimLeft(_)
TrimLeft(s) ==
  IF s # <<>> /\ Head(s) \in WhiteSpace THEN TrimLeft(Tail(s)) ELSE s

RECURSIVE TrimRight(_)
TrimRight(s) ==
  IF s # <<>> /\ s[Len(s)] \in WhiteSpace
    THEN TrimRight(SubSeq(s, 1, Len(s) - 1))
    ELSE s

\* strings.TrimSpace
TrimSpace(s) == TrimRight(TrimLeft(s))

\* the upper-case spellings that occur in the modelled texts
LowerToken(t) ==
  CASE t = "Password" -> "password"
    [] t = "VPN" -> "vpn"
    [] t = "Email" -> "email"
    [] t = "Printer" -> "printer"
    [] t = "Software" -> "software"
    [] t = "Backup" -> "backup"
    [] t = "Antivirus" -> "antivirus"
    [] t = "Remote" -> "remote"
    [] OTHER -> t

\* strings.ToLower
ToLower(s) == [i \in 1..Len(s) |-> LowerToken(s[i])]

\* the tokens that contain a keyword, or the phrase the frontend looks for,
\* as a proper substring
SubstringOf ==
  { <<"password", "passwords">>, <<"remote", "remotely">>,
    <<"couldn't find specific information",
      "I couldn't find specific information">> }

\* strings.Contains(s, kw) for a one-token kw
Contains(s, kw) ==
  \E i \in 1..Len(s) : s[i] = kw \/ <<kw, s[i]>> \in SubstringOf

\* strings.HasPrefix(s, p) for a one-token p
HasPrefix(s, p) == s # <<>> /\ Head(s) = p

\* strings.TrimPrefix(s, p) for a one-token p
TrimPrefix(s, p) == IF HasPrefix(s, p) THEN Tail(s) ELSE s

RECURSIVE SplitFrom(_, _, _)
SplitFrom(s, sep, cur) ==
  IF s = <<>> THEN << cur >>
  ELSE IF Head(s) = sep THEN << cur >> \o SplitFrom(Tail(s), sep, <<>>)
  ELSE SplitFrom(Tail(s), sep, Append(cur, Head(s)))

\* strings.Split(s, sep) for a one-token sep: always at least one field
Split(s, sep) == SplitFrom(s, sep, <<>>)

RECURSIVE DigitsValue(_, _)
DigitsValue(s, acc) ==
  IF s = <<>> THEN acc ELSE DigitsValue(Tail(s), acc * 10 + DigitVal(Head(s)))

AtoiErr == [ok |-> FALSE, val |-> 0]

RECURSIVE StripZeros(_)
StripZeros(s) ==
  IF s # <<>> /\ Head(s) = "0" THEN StripZeros(Tail(s)) ELSE s

\* Atoi as it would be if it took digits only and refused a sign
AtoiUnsigned(s) ==
  IF s = <<>> \/ \E i \in 1..Len(s) : s[i] \notin Digits
    THEN AtoiErr
  ELSE IF Len(s) >= 19 /\ Len(StripZeros(s)) > 19
    THEN AtoiErr
  ELSE [ok |-> TRUE, val |-> DigitsValue(s, 0)]

\* strconv.Atoi: an optional sign and at least one decimal digit, nothing
\* else.  Strings shorter than 19 characters take the fast path, which
\* cannot overflow; on the slow path a numeral of more than 19 significant
\* digits exceeds every int and is a range error.
Atoi(s) ==
  LET body == IF s # <<>> /\ Head(s) \in {"-", "+"} THEN Tail(s) ELSE s
      neg  == s # <<>> /\ Head(s) = "-"
  IN  IF body = <<>> \/ \E i \in 1..Len(body) : body[i] \notin Digits
        THEN AtoiErr
      ELSE IF Len(s) >= 19 /\ Len(StripZeros(body)) > 19
        THEN AtoiErr
      ELSE [ok |-> TRUE,
            val |-> IF neg THEN 0 - DigitsValue(body, 0)
                           ELSE DigitsValue(body, 0)]

RECURSIVE NatDigits(_)
NatDigits(n) ==
  LET d == CHOOSE x \in Digits : DigitVal(x) = n % 10
  IN  IF n < 10 THEN << d >> ELSE Append(NatDigits(n \div 10), d)

\* strconv.Itoa, as encoding/json writes an int
Itoa(n) == IF n < 0 THEN << "-" >> \o NatDigits(0 - n) ELSE NatDigits(n)

\* ------------------------------------------------------------------------
\* Go slices ([]int, []models.Article): nil and empty are different values
\* ------------------------------------------------------------------------

NilSlice == [nil |-> TRUE, elems |-> <<>>]

MakeSlice(s) == [nil |-> FALSE, elems |-> s]

\* append(sl, x): the result is never nil
GoAppend(sl, x) == [nil |-> FALSE, elems |-> Append(sl.elems, x)]

RECURSIVE AppendAll(_, _)
AppendAll(sl, s) ==
  IF s = <<>> THEN sl ELSE AppendAll(GoAppend(sl, Head(s)), Tail(s))

\* ------------------------------------------------------------------------
\* encoding/json for []int, as CreateSearchResult and GetSearchResultByID
\* use it: the stored text is "null", "[]" or "[1,2,3]"
\* ------------------------------------------------------------------------

RECURSIVE JoinInts(_)
JoinInts(s) ==
  IF s = <<>> THEN <<>>
  ELSE IF Len(s) = 1 THEN Itoa(s[1])
  ELSE Itoa(s[1]) \o << "," >> \o JoinInts(Tail(s))

\* a list without the later occurrences of its elements
RECURSIVE Distinct(_)
Distinct(s) ==
  IF s = <<>> THEN <<>>
  ELSE LET init == Distinct(SubSeq(s, 1, Len(s) - 1))
           x == s[Len(s)]
       IN  IF \E i \in 1..Len(init) : init[i] = x THEN init ELSE Append(init, x)

\* json.Marshal as it would be if the ids were stored as a set
MarshalIntsDistinct(sl) ==
  IF sl.nil THEN << "null" >>
  ELSE << "[" >> \o JoinInts(Distinct(sl.elems)) \o << "]" >>

\* json.Marshal(relevantArticleIDs)
MarshalInts(sl) ==
  IF sl.nil THEN << "null" >> ELSE << "[" >> \o JoinInts(sl.elems) \o << "]" >>

\* json.Unmarshal(text, &dst) into a nil []int: null leaves dst nil, an array
\* makes it non-nil
UnmarshalInts(text) ==
  IF text = << "null" >> THEN NilSlice
  ELSE LET inner == SubSeq(text, 2, Len(text) - 1)
           fields == IF inner = <<>> THEN <<>> ELSE Split(inner, ",")
       IN  MakeSlice([i \in 1..Len(fields) |-> Atoi(fields[i]).val])

\* ------------------------------------------------------------------------
\* models.Article and the seeded catalog
\* ------------------------------------------------------------------------

\* The ten articles of seedArticles.  Titles and contents keep, in order, the
\* words in which one of the heuristic's keywords occurs; every other run of
\* words is the token "w".
Catalog ==
  << [title   |-> << "Password", " ", "w" >>,
      content |-> << "w", " ", "password", " ", "w", " ", "email", " ", "w",
                     " ", "password", " ", "w" >>],
     [title   |-> << "VPN", " ", "w" >>,
      content |-> << "w", " ", "VPN", " ", "w", " ", "password", " ", "w" >>],
     [title   |-> << "Software", " ", "w" >>,
      content |-> << "w", " ", "software", " ", "w", " ", "remotely", " ",
                     "w" >>],
     [title   |-> << "Email", " ", "w" >>,
      content |-> << "Email", " ", "w", " ", "password", " ", "w", " ",
                     "email", " ", "w", " ", "passwords" >>],
     [title   |-> << "w" >>,
      content |-> << "w" >>],
     [title   |-> << "Printer", " ", "w" >>,
      content |-> << "Printer", " ", "w", " ", "printer", " ", "w" >>],
     [title   |-> << "w" >>,
      content |-> << "w" >>],
     [title   |-> << "Remote", " ", "w" >>,
      content |-> << "Remote", " ", "w", " ", "VPN", " ", "w" >>],
     [title   |-> << "Antivirus", " ", "Software", " ", "w" >>,
      content |-> << "Antivirus", " ", "w", " ", "antivirus", " ", "software",
                     " ", "w" >>],
     [title   |-> << "w", " ", "Backup", " ", "w" >>,
      content |-> << "Backup", " ", "w" >> ] >>

\* the articles table after seedArticles has inserted the whole catalog into
\* an empty table: AUTOINCREMENT numbers the rows 1, 2, ...
SeededArticles ==
  [i \in 1..Len(Catalog) |->
     [id |-> i, title |-> Catalog[i].title, content |-> Catalog[i].content]]

\* ------------------------------------------------------------------------
\* MockAIService: the keyword heuristic
\* ------------------------------------------------------------------------

Keywords ==
  << "password", "vpn", "email", "printer", "software", "backup",
     "antivirus", "remote" >>

SummaryPassword == << "To reset your password" >>
SummaryVPN == << "To set up VPN connection" >>
SummaryEmail == << "For email configuration" >>
SummaryPrinter == << "For printer issues" >>
SummaryFound == << "I found relevant information" >>
SummaryNotFound == << "I couldn't find specific information" >>

\* the loop body as it would be with eight separate if statements: every
\* keyword that matches appends the id
RECURSIVE MockChainNoElse(_, _, _, _, _)
MockChainNoElse(query, articleText, id, acc, k) ==
  IF k > Len(Keywords) THEN acc
  ELSE MockChainNoElse(query, articleText, id,
         IF Contains(query, Keywords[k]) /\ Contains(articleText, Keywords[k])
           THEN GoAppend(acc, id) ELSE acc,
         k + 1)

\* the if / else-if chain of the loop body from its k-th branch on: the first
\* branch whose keyword occurs in the query and in the article's text appends
\* the id, and the branches after it are not reached
RECURSIVE MockChain(_, _, _, _, _)
MockChain(query, articleText, id, acc, k) ==
  IF k > Len(Keywords) THEN acc
  ELSE IF Contains(query, Keywords[k]) /\ Contains(articleText, Keywords[k])
    THEN GoAppend(acc, id)
  ELSE MockChain(query, articleText, id, acc, k + 1)

\* the loop over the articles
RECURSIVE MockRelevant(_, _, _)
MockRelevant(query, arts, acc) ==
  IF arts = <<>> THEN acc
  ELSE LET article == Head(arts)
           articleText == ToLower(article.title \o << " " >> \o article.content)
       IN  MockRelevant(query, Tail(arts),
                        MockChain(query, articleText, article.id, acc, 1))

\* the summary cascade as it would be with the vpn branch first
MockSummaryVPNFirst(query, relevantArticles) ==
  IF Contains(query, "vpn") THEN SummaryVPN
  ELSE IF Contains(query, "password") THEN SummaryPassword
  ELSE IF Contains(query, "email") THEN SummaryEmail
  ELSE IF Contains(query, "printer") THEN SummaryPrinter
  ELSE IF Len(relevantArticles.elems) > 0 THEN SummaryFound
  ELSE SummaryNotFound

\* the if / else-if chain that picks the summary
MockSummary(query, relevantArticles) ==
  IF Contains(query, "password") THEN SummaryPassword
  ELSE IF Contains(query, "vpn") THEN SummaryVPN
  ELSE IF Contains(query, "email") THEN SummaryEmail
  ELSE IF Contains(query, "printer") THEN SummaryPrinter
  ELSE IF Len(relevantArticles.elems) > 0 THEN SummaryFound
  ELSE SummaryNotFound

\* MockAIService.AnalyzeQuery(query, articles); arts is the elems of articles
MockAnalyzeQuery(queryText, arts) ==
  LET query == ToLower(queryText)
      relevantArticles == MockRelevant(query, arts, NilSlice)
  IN  [Summary |-> MockSummary(query, relevantArticles),
       RelevantArticles |-> relevantArticles]

\* ------------------------------------------------------------------------
\* GeminiService: parsing of the external model's answer
\* ------------------------------------------------------------------------

SummaryFallback == << "I found some information that might help you" >>

\* articleExists as it would be without the check against the article set
articleExistsAlways(id, arts) == TRUE

articleExists(id, arts) == \E i \in 1..Len(arts) : arts[i].id = id

\* the inner loop over the comma-separated fields of a RELEVANT_ARTICLES line
RECURSIVE ParseIDs(_, _, _)
ParseIDs(articleStrs, arts, acc) ==
  IF articleStrs = <<>> THEN acc
  ELSE LET r == Atoi(TrimSpace(Head(articleStrs)))
       IN  ParseIDs(Tail(articleStrs), arts,
             IF r.ok /\ articleExists(r.val, arts) THEN GoAppend(acc, r.val)
                                                   ELSE acc)

\* the loop over the lines; st is [summary, ids]
RECURSIVE ParseLines(_, _, _)
ParseLines(lines, arts, st) ==
  IF lines = <<>> THEN st
  ELSE LET line == TrimSpace(Head(lines))
           articlesStr == TrimSpace(TrimPrefix(line, "RELEVANT_ARTICLES:"))
       IN  ParseLines(Tail(lines), arts,
             IF HasPrefix(line, "SUMMARY:")
               THEN [st EXCEPT !.summary = TrimSpace(TrimPrefix(line, "SUMMARY:"))]
             ELSE IF HasPrefix(line, "RELEVANT_ARTICLES:")
               THEN IF articlesStr # << "none" >> /\ articlesStr # <<>>
                      THEN [st EXCEPT !.ids =
                              ParseIDs(Split(articlesStr, ","), arts, st.ids)]
                      ELSE st
             ELSE st)

\* the lines up to and with the first RELEVANT_ARTICLES line
RECURSIVE UpToRelevant(_)
UpToRelevant(lines) ==
  IF lines = <<>> THEN <<>>
  ELSE IF HasPrefix(TrimSpace(Head(lines)), "RELEVANT_ARTICLES:")
    THEN << Head(lines) >>
  ELSE << Head(lines) >> \o UpToRelevant(Tail(lines))

\* parseResponse as it would be with a break after the RELEVANT_ARTICLES
\* line, taken to be the last line of the answer
parseResponseBreaks(response, arts) ==
  LET st == ParseLines(UpToRelevant(Split(response, "\n")), arts,
                       [summary |-> <<>>, ids |-> NilSlice])
  IN  [Summary |-> IF st.summary = <<>> THEN SummaryFallback ELSE st.summary,
       RelevantArticles |-> st.ids]

\* parseResponse as it would be without the fallback
parseResponseNoFallback(response, arts) ==
  LET st == ParseLines(Split(response, "\n"), arts,
                       [summary |-> <<>>, ids |-> NilSlice])
  IN  [Summary |-> st.summary, RelevantArticles |-> st.ids]

\* GeminiService.parseResponse(response, articles)
parseResponse(response, arts) ==
  LET st == ParseLines(Split(response, "\n"), arts,
                       [summary |-> <<>>, ids |-> NilSlice])
  IN  [Summary |-> IF st.summary = <<>> THEN SummaryFallback ELSE st.summary,
       RelevantArticles |-> st.ids]

\* ------------------------------------------------------------------------
\* The inputs of the model
\* ------------------------------------------------------------------------

\* query texts a client may submit: empty, all-whitespace, one that names two
\* keywords, and one that names none, carries surrounding whitespace and has
\* quote characters, an SQL fragment and a character outside ASCII (the
\* token "U+5BC6") in it
QueryTexts ==
  { <<>>,
    << " ", "\t", "\n" >>,
    << "Password", " ", "w", " ", "VPN", "?" >>,
    << " ", "'", ";", " ", "DROP TABLE articles", ";", " ", "--", "\"",
       "U+5BC6", "\n" >> }

\* bodies of POST /search-query: not JSON at all, a JSON object without the
\* query member, and a JSON object with it
SearchBodies ==
  { [kind |-> "malformed", query |-> <<>>],
    [kind |-> "noquery", query |-> <<>>] }
  \cup { [kind |-> "query", query |-> q] : q \in QueryTexts }

\* id segments of GET /articles/{id}: a stored id, a negative and an unknown
\* id, a signed numeral, a word, and a numeral too long for an int
IdSegments ==
  { << "1" >>, << "-", "1" >>, << "9", "9" >>, << "+", "1", "0" >>,
    << "invalid" >>,
    << "9", "9", "9", "9", "9", "9", "9", "9", "9", "9",
       "9", "9", "9", "9", "9", "9", "9", "9", "9", "9" >> }

\* answers of the external model: both lines, with an unknown id, a token
\* that is no number and two valid ids in descending order; the lines
\* swapped, with one id named twice; no summary line and only an unknown id
GeminiAnswers ==
  { << "SUMMARY:", " ", "w", "\n",
       "RELEVANT_ARTICLES:", " ", "3", ",", "9", "9", ",", "x", ",", " ", "1" >>,
    << "RELEVANT_ARTICLES:", " ", "2", ",", " ", "2", "\n", "SUMMARY:", "w" >>,
    << "w", "\n", "RELEVANT_ARTICLES:", " ", "4", "2", "\n" >> }

\* a connection or I/O failure of a storage statement
IOError == "disk I/O error"

\* database/sql's ErrNoRows
ErrNoRows == "sql: no rows in result set"

\* ------------------------------------------------------------------------
\* State
\* ------------------------------------------------------------------------

VARIABLES
  articles,        \* table articles, in rowid order
  queries,         \* table queries, in rowid order
  search_results,  \* table search_results, in rowid order
  now,             \* the clock time.Now() reads
  aiService,       \* the strategy main selected: "mock" or "gemini"
  pc,              \* per request: the statement it is at
  request,         \* per request: the HTTP request as received
  queryText,       \* ProcessSearchQuery's parameter
  lastID,          \* result.LastInsertId() of the request's last INSERT
  query,           \* ProcessSearchQuery's local query
  arts,            \* ProcessSearchQuery's local articles
  aiResult,        \* ProcessSearchQuery's local aiResult
  calls,           \* the storage and analysis operations the request called
  ret,             \* what ProcessSearchQuery returned
  resp,            \* the HTTP response written
  received,        \* the number of requests received, or of direct calls made
  generated,       \* per request: the GenerateContent requests it has made
  schema,          \* the tables createTables has created
  last,            \* the last direct call of a component and what it returned
  searchBar,       \* SearchBar's state: query and isLoading
  app,             \* App's state: searchResult and error
  inFlight,        \* the search requests sent by the frontend and not settled
  submit,          \* the last submit of the form: what it sent and called
  submitted        \* the number of submits of the form

vars ==
  << articles, queries, search_results, now, aiService, pc, request,
     queryText, lastID, query, arts, aiResult, calls, ret, resp, received,
     generated, schema, last, searchBar, app, inFlight, submit, submitted >>

db == << articles, queries, search_results, now >>

locals == << queryText, lastID, query, arts, aiResult >>

\* the frontend, which runs in the browser
frontend == << searchBar, app, inFlight, submit, submitted >>

\* what no HTTP request changes: the strategy, the schema, the record of
\* direct calls, and the state of the frontend
static == << aiService, schema, last, frontend >>

NoRequest == [route |-> "none", body |-> <<>>, id |-> <<>>, failed |-> FALSE]
NoQuery == [ID |-> 0, Query |-> <<>>, CreatedAt |-> 0]
NoResult == [Summary |-> <<>>, RelevantArticles |-> NilSlice]
NoReturn == [called |-> FALSE, nil |-> TRUE, response |-> <<>>, err |-> <<>>]
NoResp == [status |-> 0, body |-> <<>>]
NoCall == [op |-> "none"]

\* the environments main may start in: each of USE_MOCK_AI and
\* GEMINI_API_KEY is unset, set to the empty string, or set to a value
EnvValues(key) ==
  IF key = "USE_MOCK_AI" THEN { "", "true", "false", "TRUE", "1" }
                         ELSE { "", "key" }

Envs ==
  UNION { { e \in [S -> { "", "true", "false", "TRUE", "1", "key" }] :
              \A k \in S : e[k] \in EnvValues(k) } :
          S \in SUBSET { "USE_MOCK_AI", "GEMINI_API_KEY" } }

\* os.Getenv: the empty string for a variable that is not set
Getenv(env, key) == IF key \in DOMAIN env THEN env[key] ELSE ""

\* getEnv(key, defaultValue)
getEnv(env, key, defaultValue) ==
  IF Getenv(env, key) # "" THEN Getenv(env, key) ELSE defaultValue

\* LoadConfig as it would be if USE_MOCK_AI were parsed as a boolean and an
\* unset variable meant false
LoadConfigParseBool(env) ==
  [Port |-> getEnv(env, "PORT", "8080"),
   DBPath |-> getEnv(env, "DB_PATH", "./data.db"),
   GeminiKey |-> getEnv(env, "GEMINI_API_KEY", ""),
   UseMockAI |-> getEnv(env, "USE_MOCK_AI", "false") \in { "true", "TRUE", "1" }]

\* config.LoadConfig in the environment env
LoadConfig(env) ==
  [Port |-> getEnv(env, "PORT", "8080"),
   DBPath |-> getEnv(env, "DB_PATH", "./data.db"),
   GeminiKey |-> getEnv(env, "GEMINI_API_KEY", ""),
   UseMockAI |-> getEnv(env, "USE_MOCK_AI", "true") = "true"]

\* the configurations main may run with
Configs == { LoadConfig(env) : env \in Envs }

\* NewGeminiService(apiKey): the outcomes it can have; creating the client
\* may fail for a key that is not empty
NewGeminiService(apiKey) ==
  IF apiKey = ""
    THEN { [service |-> "nil", err |-> << "API key is required" >>] }
    ELSE { [service |-> "gemini", err |-> <<>>],
           [service |-> "nil",
            err |-> << "failed to create Gemini client", "client error" >>] }

\* the strategies main can end up serving with under cfg; when
\* NewGeminiService fails, main exits and serves nothing
SelectAIService(cfg) ==
  IF cfg.UseMockAI \/ cfg.GeminiKey = ""
    THEN { "mock" }
    ELSE { r.service : r \in { x \in NewGeminiService(cfg.GeminiKey) : x.err = <<>> } }

\* main's "Initialize AI service" block under cfg, with what it logs: the
\* branch taken, the service built and the error that makes main exit
InitializeAIService(cfg) ==
  IF cfg.UseMockAI \/ cfg.GeminiKey = ""
    THEN { [log |-> "Using Mock AI service", service |-> "mock", err |-> <<>>] }
    ELSE { [log |-> "Using Gemini AI service", service |-> r.service,
            err |-> r.err] : r \in NewGeminiService(cfg.GeminiKey) }

\* useState<SearchResponse | null>(null)
NoSearchResult == [null |-> TRUE]

\* no submit of the form yet
NoSubmit ==
  [query |-> <<>>, sent |-> 0, callbacks |-> <<>>, settled |-> TRUE,
   outcome |-> [kind |-> "none"]]

\* the frontend as mounted: the useState initial values of SearchBar and App
InitFrontend ==
  /\ searchBar = [query |-> <<>>, isLoading |-> FALSE]
  /\ app = [searchResult |-> NoSearchResult, error |-> <<>>]
  /\ inFlight = <<>>
  /\ submit = NoSubmit
  /\ submitted = 0

\* main, up to ListenAndServe, on a fresh store: Initialize has created the
\* tables and seeded the catalog
Init ==
  /\ articles = SeededArticles
  /\ queries = <<>>
  /\ search_results = <<>>
  /\ now = 1
  /\ aiService \in UNION { SelectAIService(cfg) : cfg \in Configs }
  /\ generated = [c \in Clients |-> 0]
  /\ schema = { "articles", "queries", "search_results" }
  /\ last = NoCall
  /\ pc = [c \in Clients |-> "idle"]
  /\ request = [c \in Clients |-> NoRequest]
  /\ queryText = [c \in Clients |-> <<>>]
  /\ lastID = [c \in Clients |-> 0]
  /\ query = [c \in Clients |-> NoQuery]
  /\ arts = [c \in Clients |-> NilSlice]
  /\ aiResult = [c \in Clients |-> NoResult]
  /\ calls = [c \in Clients |-> <<>>]
  /\ ret = [c \in Clients |-> NoReturn]
  /\ resp = [c \in Clients |-> NoResp]
  /\ received = 0
  /\ InitFrontend

\* ------------------------------------------------------------------------
\* SQLiteDB: the statements
\* ------------------------------------------------------------------------

\* INTEGER PRIMARY KEY AUTOINCREMENT: one more than the largest id ever used;
\* no row is ever deleted, so that is the id of the last row
NextID(table) == IF table = <<>> THEN 1 ELSE table[Len(table)].id + 1

\* the rows.Next() loop of GetAllArticles and GetArticlesByIDs: appends to a
\* nil slice, so no row leaves it nil
ScanRows(rows) == AppendAll(NilSlice, rows)

\* SELECT id, title, content FROM articles: a table scan, in rowid order
GetAllArticlesRows(table) == ScanRows(table)

\* SELECT ... WHERE id = ?
RowByID(table, id) == SelectSeq(table, LAMBDA r : r.id = id)

\* GetArticlesByIDs as it would be with one lookup per id of the list: an
\* article for every occurrence of its id, in the order of the list
RECURSIVE GetArticlesByIDsRowsPerID(_, _)
GetArticlesByIDsRowsPerID(ids, table) ==
  IF Len(ids.elems) = 0 THEN MakeSlice(<<>>)
  ELSE LET rest == GetArticlesByIDsRowsPerID(MakeSlice(Tail(ids.elems)), table)
       IN  [nil |-> FALSE,
            elems |-> RowByID(table, Head(ids.elems)) \o rest.elems]

\* GetArticlesByIDs as it would be if the rows came in the order in which
\* the list names their ids first, each row once
RECURSIVE GetArticlesByIDsRowsListOrder(_, _)
GetArticlesByIDsRowsListOrder(ids, table) ==
  IF Len(ids.elems) = 0 THEN MakeSlice(<<>>)
  ELSE LET id == Head(ids.elems)
           rest == SelectSeq(Tail(ids.elems), LAMBDA x : x # id)
       IN  [nil |-> FALSE,
            elems |-> RowByID(table, id) \o
                      GetArticlesByIDsRowsListOrder(MakeSlice(rest), table).elems]

\* GetArticlesByIDs as it would be without the early return for an empty list
GetArticlesByIDsRowsNoEarlyReturn(ids, table) ==
  ScanRows(SelectSeq(table,
    LAMBDA r : \E i \in 1..Len(ids.elems) : ids.elems[i] = r.id))

\* SQLiteDB.GetArticlesByIDs without the failure of the statement: the
\* empty list returns early with an empty, non-nil slice; otherwise
\* SELECT ... WHERE id IN (...) yields each matching row once, in rowid order
GetArticlesByIDsRows(ids, table) ==
  IF Len(ids.elems) = 0 THEN MakeSlice(<<>>)
  ELSE ScanRows(SelectSeq(table,
         LAMBDA r : \E i \in 1..Len(ids.elems) : ids.elems[i] = r.id))

\* the models.Query that GetQueryByID scans from a row
ScanQuery(row) == [ID |-> row.id, Query |-> row.query, CreatedAt |-> row.created_at]

\* ------------------------------------------------------------------------
\* SearchHandler: writing the response
\* ------------------------------------------------------------------------

\* models.ErrorResponse through sendErrorResponse: message is omitempty
ErrorResponse(status, error, message) ==
  [status |-> status,
   body |-> IF message = <<>> THEN [error |-> error]
                              ELSE [error |-> error, message |-> message]]

\* a []models.Article as encoding/json writes it: a nil slice is null
EncodeArticles(sl) == [null |-> sl.nil, items |-> sl.elems]

\* the failure path as it would be if SearchQuery answered 404, as GetArticle
\* does
AbortNotFound(c, chain) ==
  /\ ret' = [ret EXCEPT ![c] =
               [called |-> TRUE, nil |-> TRUE, response |-> <<>>, err |-> chain]]
  /\ resp' = [resp EXCEPT ![c] =
                ErrorResponse(404, "Failed to process search query", chain)]
  /\ pc' = [pc EXCEPT ![c] = "done"]
  /\ queryText' = [queryText EXCEPT ![c] = <<>>]
  /\ lastID' = [lastID EXCEPT ![c] = 0]
  /\ query' = [query EXCEPT ![c] = NoQuery]
  /\ arts' = [arts EXCEPT ![c] = NilSlice]
  /\ aiResult' = [aiResult EXCEPT ![c] = NoResult]

\* ProcessSearchQuery returns (nil, err), its locals are gone, and
\* SearchQuery answers 500
Abort(c, chain) ==
  /\ ret' = [ret EXCEPT ![c] =
               [called |-> TRUE, nil |-> TRUE, response |-> <<>>, err |-> chain]]
  /\ resp' = [resp EXCEPT ![c] =
                ErrorResponse(500, "Failed to process search query", chain)]
  /\ pc' = [pc EXCEPT ![c] = "done"]
  /\ queryText' = [queryText EXCEPT ![c] = <<>>]
  /\ lastID' = [lastID EXCEPT ![c] = 0]
  /\ query' = [query EXCEPT ![c] = NoQuery]
  /\ arts' = [arts EXCEPT ![c] = NilSlice]
  /\ aiResult' = [aiResult EXCEPT ![c] = NoResult]

\* the response as it would be with the time of the answer as timestamp
BuildResponseNow(c, relevantArticles) ==
  [Query |-> queryText[c],
   AISummaryAnswer |-> aiResult[c].Summary,
   AIRelevantArticles |-> relevantArticles,
   QueryID |-> query[c].ID,
   Timestamp |-> now]

\* the models.SearchResponse that ProcessSearchQuery builds
BuildResponse(c, relevantArticles) ==
  [Query |-> queryText[c],
   AISummaryAnswer |-> aiResult[c].Summary,
   AIRelevantArticles |-> relevantArticles,
   QueryID |-> query[c].ID,
   Timestamp |-> query[c].CreatedAt]

\* the JSON object written for a models.SearchResponse
EncodeResponse(r) ==
  [query |-> r.Query,
   ai_summary_answer |-> r.AISummaryAnswer,
   ai_relevant_articles |-> EncodeArticles(r.AIRelevantArticles),
   query_id |-> r.QueryID,
   timestamp |-> r.Timestamp]

\* ------------------------------------------------------------------------
\* POST /search-query: SearchHandler.SearchQuery, then the statements of
\* SearchService.ProcessSearchQuery one by one
\* ------------------------------------------------------------------------

\* json.Decode into models.SearchRequest: a missing member leaves Query ""
DecodeOK(body) == body.kind # "malformed"

DecodedQuery(body) == IF body.kind = "query" THEN body.query ELSE <<>>

\* the validation as it would be without TrimSpace
QueryAcceptedNoTrim(body) == DecodeOK(body) /\ DecodedQuery(body) # <<>>

\* the validation of SearchQuery: TRUE when the request goes on to
\* ProcessSearchQuery
QueryAccepted(body) == DecodeOK(body) /\ TrimSpace(DecodedQuery(body)) # <<>>

\* the server accepts request r on connection c: the connection's previous
\* request is over and its handler's variables are gone
Receive(c, r) ==
  /\ pc[c] \in {"idle", "done"}
  /\ received < MaxRequests
  /\ received' = received + 1
  /\ request' = [request EXCEPT ![c] = r]
  /\ lastID' = [lastID EXCEPT ![c] = 0]
  /\ query' = [query EXCEPT ![c] = NoQuery]
  /\ arts' = [arts EXCEPT ![c] = NilSlice]
  /\ aiResult' = [aiResult EXCEPT ![c] = NoResult]
  /\ ret' = [ret EXCEPT ![c] = NoReturn]
  /\ generated' = [generated EXCEPT ![c] = 0]

SearchQuery(c) ==
  \E body \in SearchBodies :
    /\ Receive(c, [route |-> "SearchQuery", body |-> body, id |-> <<>>,
                   failed |-> FALSE])
    /\ calls' = [calls EXCEPT ![c] = <<>>]
    /\ IF ~DecodeOK(body)
         THEN /\ resp' = [resp EXCEPT ![c] =
                   ErrorResponse(400, "Invalid JSON", << "invalid character" >>)]
              /\ pc' = [pc EXCEPT ![c] = "done"]
              /\ queryText' = [queryText EXCEPT ![c] = <<>>]
       ELSE IF ~QueryAccepted(body)
         THEN /\ resp' = [resp EXCEPT ![c] =
                   ErrorResponse(400, "Query is required", <<>>)]
              /\ pc' = [pc EXCEPT ![c] = "done"]
              /\ queryText' = [queryText EXCEPT ![c] = <<>>]
       ELSE /\ queryText' = [queryText EXCEPT ![c] = DecodedQuery(body)]
            /\ pc' = [pc EXCEPT ![c] = "CreateQuery"]
            /\ resp' = [resp EXCEPT ![c] = NoResp]
    /\ UNCHANGED << db, static >>

\* the row as it would be if the text were stored trimmed
NewQueryRowTrimmed(text) ==
  [id |-> NextID(queries), query |-> TrimSpace(text), created_at |-> now]

\* the row CreateQuery inserts: the text is bound to the statement's
\* parameter, as it is
NewQueryRow(text) ==
  [id |-> NextID(queries), query |-> text, created_at |-> now]

\* the INSERT of step 1 as it would be as an upsert on the text: a query
\* with the same text is given a new time instead of a new row
CreateQueryUpsert(c) ==
  /\ pc[c] = "CreateQuery"
  /\ calls' = [calls EXCEPT ![c] = Append(@, "CreateQuery")]
  /\ \/ LET same == SelectSeq(queries, LAMBDA r : r.query = queryText[c])
        IN  /\ IF same = <<>>
                 THEN /\ queries' = Append(queries, NewQueryRow(queryText[c]))
                      /\ lastID' = [lastID EXCEPT ![c] = NextID(queries)]
                 ELSE /\ queries' =
                           [i \in 1..Len(queries) |->
                              IF queries[i].id = same[1].id
                                THEN [queries[i] EXCEPT !.created_at = now]
                                ELSE queries[i]]
                      /\ lastID' = [lastID EXCEPT ![c] = same[1].id]
            /\ now' = now + 1
            /\ pc' = [pc EXCEPT ![c] = "GetQueryByID"]
            /\ UNCHANGED << queryText, query, arts, aiResult, ret, resp >>
     \/ /\ Abort(c, << "failed to create query", IOError >>)
        /\ UNCHANGED << queries, now >>
  /\ UNCHANGED << articles, search_results, static, request, received, generated >>

\* step 1, first statement: INSERT INTO queries
CreateQuery(c) ==
  /\ pc[c] = "CreateQuery"
  /\ calls' = [calls EXCEPT ![c] = Append(@, "CreateQuery")]
  /\ \/ /\ queries' = Append(queries, NewQueryRow(queryText[c]))
        /\ now' = now + 1
        /\ lastID' = [lastID EXCEPT ![c] = NextID(queries)]
        /\ pc' = [pc EXCEPT ![c] = "GetQueryByID"]
        /\ UNCHANGED << queryText, query, arts, aiResult, ret, resp >>
     \/ /\ Abort(c, << "failed to create query", IOError >>)
        /\ UNCHANGED << queries, now >>
  /\ UNCHANGED << articles, search_results, static, request, received, generated >>

\* the last statement of step 1 as it would be if it read the newest row of
\* the table instead of the row of the id its own INSERT returned
GetQueryByIDNewest(c) ==
  /\ pc[c] = "GetQueryByID"
  /\ \/ IF queries # <<>>
          THEN /\ query' = [query EXCEPT ![c] = ScanQuery(queries[Len(queries)])]
               /\ pc' = [pc EXCEPT ![c] = "GetAllArticles"]
               /\ UNCHANGED << queryText, lastID, arts, aiResult, ret, resp >>
          ELSE Abort(c, << "failed to create query", ErrNoRows >>)
     \/ Abort(c, << "failed to create query", IOError >>)
  /\ UNCHANGED << db, static, request, calls, received, generated >>

\* step 1, last statement: return s.GetQueryByID(int(id))
GetQueryByID(c) ==
  /\ pc[c] = "GetQueryByID"
  /\ \/ IF RowByID(queries, lastID[c]) # <<>>
          THEN /\ query' = [query EXCEPT ![c] =
                              ScanQuery(RowByID(queries, lastID[c])[1])]
               /\ pc' = [pc EXCEPT ![c] = "GetAllArticles"]
               /\ UNCHANGED << queryText, lastID, arts, aiResult, ret, resp >>
          ELSE Abort(c, << "failed to create query", ErrNoRows >>)
     \/ Abort(c, << "failed to create query", IOError >>)
  /\ UNCHANGED << db, static, request, calls, received, generated >>

\* step 2 as it would be with the error prefix of step 1
ProcessGetAllArticlesWrongPrefix(c) ==
  /\ pc[c] = "GetAllArticles"
  /\ calls' = [calls EXCEPT ![c] = Append(@, "GetAllArticles")]
  /\ \/ /\ arts' = [arts EXCEPT ![c] = GetAllArticlesRows(articles)]
        /\ pc' = [pc EXCEPT ![c] = "AnalyzeQuery"]
        /\ UNCHANGED << queryText, lastID, query, aiResult, ret, resp >>
     \/ Abort(c, << "failed to create query", IOError >>)
  /\ UNCHANGED << db, static, request, received, generated >>

\* step 2: s.db.GetAllArticles()
ProcessGetAllArticles(c) ==
  /\ pc[c] = "GetAllArticles"
  /\ calls' = [calls EXCEPT ![c] = Append(@, "GetAllArticles")]
  /\ \/ /\ arts' = [arts EXCEPT ![c] = GetAllArticlesRows(articles)]
        /\ pc' = [pc EXCEPT ![c] = "AnalyzeQuery"]
        /\ UNCHANGED << queryText, lastID, query, aiResult, ret, resp >>
     \/ Abort(c, << "failed to get articles", IOError >>)
  /\ UNCHANGED << db, static, request, received, generated >>

\* what the analysis component returns for this request: the heuristic's
\* result, or the parse of some answer of the external model
AnalysisResults(c) ==
  IF aiService = "mock"
    THEN { MockAnalyzeQuery(queryText[c], arts[c].elems) }
    ELSE { parseResponse(a, arts[c].elems) : a \in GeminiAnswers }

\* the errors GeminiService.AnalyzeQuery returns: GenerateContent failed, or
\* the answer has no candidate or no part
AnalysisErrors ==
  IF aiService = "mock" THEN {}
  ELSE { << "failed to generate content", "transport error" >>,
         << "no response generated" >> }

\* the GenerateContent requests one AnalyzeQuery call makes: the heuristic
\* makes none, GeminiService.AnalyzeQuery has the one call and no loop
GenerateContentCalls == IF aiService = "mock" THEN 0 ELSE 1

\* step 3 as it would be with one retry of a failed GenerateContent request
AnalyzeQueryRetries(c) ==
  /\ pc[c] = "AnalyzeQuery"
  /\ calls' = [calls EXCEPT ![c] = Append(@, "AnalyzeQuery")]
  /\ \/ /\ \E r \in AnalysisResults(c) : aiResult' = [aiResult EXCEPT ![c] = r]
        /\ \E n \in { GenerateContentCalls, 2 * GenerateContentCalls } :
             generated' = [generated EXCEPT ![c] = @ + n]
        /\ pc' = [pc EXCEPT ![c] = "CreateSearchResult"]
        /\ UNCHANGED << queryText, lastID, query, arts, ret, resp >>
     \/ /\ \E e \in AnalysisErrors :
             Abort(c, << "failed to analyze query" >> \o e)
        /\ generated' = [generated EXCEPT ![c] = @ + 2 * GenerateContentCalls]
  /\ UNCHANGED << db, static, request, received >>

\* step 3: s.aiService.AnalyzeQuery(queryText, articles)
AnalyzeQuery(c) ==
  /\ pc[c] = "AnalyzeQuery"
  /\ calls' = [calls EXCEPT ![c] = Append(@, "AnalyzeQuery")]
  /\ generated' = [generated EXCEPT ![c] = @ + GenerateContentCalls]
  /\ \/ /\ \E r \in AnalysisResults(c) : aiResult' = [aiResult EXCEPT ![c] = r]
        /\ pc' = [pc EXCEPT ![c] = "CreateSearchResult"]
        /\ UNCHANGED << queryText, lastID, query, arts, ret, resp >>
     \/ \E e \in AnalysisErrors :
          Abort(c, << "failed to analyze query" >> \o e)
  /\ UNCHANGED << db, static, request, received >>

\* the row CreateSearchResult inserts
NewResultRow(queryID, summary, relevantArticleIDs) ==
  [id |-> NextID(search_results),
   query_id |-> queryID,
   ai_summary_answer |-> summary,
   ai_relevant_articles |-> MarshalInts(relevantArticleIDs),
   created_at |-> now]

\* the INSERT of step 4 as it would be if it were run a second time
CreateSearchResultTwice(c) ==
  /\ pc[c] = "CreateSearchResult"
  /\ calls' = [calls EXCEPT ![c] = Append(@, "CreateSearchResult")]
  /\ \/ LET first == NewResultRow(query[c].ID, aiResult[c].Summary,
                                  aiResult[c].RelevantArticles)
        IN  /\ search_results' =
                 search_results \o << first, [first EXCEPT !.id = @ + 1] >>
            /\ now' = now + 1
            /\ lastID' = [lastID EXCEPT ![c] = NextID(search_results) + 1]
            /\ pc' = [pc EXCEPT ![c] = "GetSearchResultByID"]
            /\ UNCHANGED << queryText, query, arts, aiResult, ret, resp >>
     \/ /\ Abort(c, << "failed to save search result", IOError >>)
        /\ UNCHANGED << search_results, now >>
  /\ UNCHANGED << articles, queries, static, request, received, generated >>

\* step 4, first statements: json.Marshal and INSERT INTO search_results
CreateSearchResult(c) ==
  /\ pc[c] = "CreateSearchResult"
  /\ calls' = [calls EXCEPT ![c] = Append(@, "CreateSearchResult")]
  /\ \/ /\ search_results' = Append(search_results,
             NewResultRow(query[c].ID, aiResult[c].Summary,
                          aiResult[c].RelevantArticles))
        /\ now' = now + 1
        /\ lastID' = [lastID EXCEPT ![c] = NextID(search_results)]
        /\ pc' = [pc EXCEPT ![c] = "GetSearchResultByID"]
        /\ UNCHANGED << queryText, query, arts, aiResult, ret, resp >>
     \/ /\ Abort(c, << "failed to save search result", IOError >>)
        /\ UNCHANGED << search_results, now >>
  /\ UNCHANGED << articles, queries, static, request, received, generated >>

\* the models.SearchResult that GetSearchResultByID scans from a row
ScanSearchResult(row) ==
  [ID |-> row.id,
   QueryID |-> row.query_id,
   AISummaryAnswer |-> row.ai_summary_answer,
   AIRelevantArticles |-> UnmarshalInts(row.ai_relevant_articles),
   CreatedAt |-> row.created_at]

\* step 4, last statement: return s.GetSearchResultByID(int(id)); the
\* record is discarded by ProcessSearchQuery
GetSearchResultByID(c) ==
  /\ pc[c] = "GetSearchResultByID"
  /\ \/ IF RowByID(search_results, lastID[c]) # <<>>
          THEN /\ pc' = [pc EXCEPT ![c] = "GetArticlesByIDs"]
               /\ UNCHANGED << locals, ret, resp >>
          ELSE Abort(c, << "failed to save search result", ErrNoRows >>)
     \/ Abort(c, << "failed to save search result", IOError >>)
  /\ UNCHANGED << db, static, request, calls, received, generated >>

\* step 5 as it would be with a compensating rollback: on failure the
\* request's SearchResult and Query rows are deleted
GetArticlesByIDsRollback(c) ==
  /\ pc[c] = "GetArticlesByIDs"
  /\ calls' = [calls EXCEPT ![c] = Append(@, "GetArticlesByIDs")]
  /\ \/ LET response ==
              BuildResponse(c, GetArticlesByIDsRows(aiResult[c].RelevantArticles,
                                                    articles))
        IN  /\ ret' = [ret EXCEPT ![c] =
                         [called |-> TRUE, nil |-> FALSE, response |-> response,
                          err |-> <<>>]]
            /\ resp' = [resp EXCEPT ![c] =
                          [status |-> 200, body |-> EncodeResponse(response)]]
            /\ pc' = [pc EXCEPT ![c] = "done"]
            /\ UNCHANGED << locals, db >>
     \/ /\ Len(aiResult[c].RelevantArticles.elems) > 0
        /\ Abort(c, << "failed to get relevant articles", IOError >>)
        /\ search_results' = SelectSeq(search_results, LAMBDA r : r.id # lastID[c])
        /\ queries' = SelectSeq(queries, LAMBDA r : r.id # query[c].ID)
        /\ UNCHANGED << articles, now >>
  /\ UNCHANGED << static, request, received, generated >>

\* step 5 and the return: s.db.GetArticlesByIDs, the response, and the 200
\* that SearchQuery writes.  The statement is only run, and can only fail,
\* for a non-empty id list.
GetArticlesByIDs(c) ==
  /\ pc[c] = "GetArticlesByIDs"
  /\ calls' = [calls EXCEPT ![c] = Append(@, "GetArticlesByIDs")]
  /\ \/ LET response ==
              BuildResponse(c, GetArticlesByIDsRows(aiResult[c].RelevantArticles,
                                                    articles))
        IN  /\ ret' = [ret EXCEPT ![c] =
                         [called |-> TRUE, nil |-> FALSE, response |-> response,
                          err |-> <<>>]]
            /\ resp' = [resp EXCEPT ![c] =
                          [status |-> 200, body |-> EncodeResponse(response)]]
            /\ pc' = [pc EXCEPT ![c] = "done"]
            /\ UNCHANGED locals
     \/ /\ Len(aiResult[c].RelevantArticles.elems) > 0
        /\ Abort(c, << "failed to get relevant articles", IOError >>)
  /\ UNCHANGED << db, static, request, received, generated >>

\* ------------------------------------------------------------------------
\* GET /articles/{id}, GET /articles, GET /health
\* ------------------------------------------------------------------------

\* SQLiteDB.GetArticleByID: the article, or the error of QueryRow().Scan
GetArticleByID(id, failed) ==
  IF failed THEN [err |-> IOError, article |-> <<>>]
  ELSE IF RowByID(articles, id) = <<>> THEN [err |-> ErrNoRows, article |-> <<>>]
  ELSE [err |-> "", article |-> RowByID(articles, id)[1]]

\* the response of SearchHandler.GetArticle for the id segment idStr; failed
\* tells whether the storage statement fails
GetArticleResponse(idStr, failed) ==
  IF ~Atoi(idStr).ok THEN ErrorResponse(400, "Invalid article ID", <<>>)
  ELSE IF GetArticleByID(Atoi(idStr).val, failed).err # ""
    THEN ErrorResponse(404, "Article not found", <<>>)
  ELSE [status |-> 200, body |-> GetArticleByID(Atoi(idStr).val, failed).article]

\* SearchHandler.GetArticle
GetArticle(c) ==
  \E idStr \in IdSegments, failed \in BOOLEAN :
    /\ Receive(c, [route |-> "GetArticle", body |-> <<>>, id |-> idStr,
                   failed |-> Atoi(idStr).ok /\ failed])
    /\ calls' = [calls EXCEPT ![c] =
                   IF Atoi(idStr).ok THEN << "GetArticleByID" >> ELSE <<>>]
    /\ resp' = [resp EXCEPT ![c] = GetArticleResponse(idStr, failed)]
    /\ pc' = [pc EXCEPT ![c] = "done"]
    /\ queryText' = [queryText EXCEPT ![c] = <<>>]
    /\ UNCHANGED << db, static >>

\* what SearchHandler.GetAllArticles writes for the slice and the error
\* ("" for nil) that searchService.GetAllArticles returned
GetAllArticlesResponse(sl, err) ==
  IF err # "" THEN ErrorResponse(500, "Failed to get articles", << err >>)
  ELSE [status |-> 200, body |-> EncodeArticles(sl)]

\* SearchHandler.GetAllArticles; failed tells whether the statement fails
GetAllArticles(c) ==
  \E failed \in BOOLEAN :
    /\ Receive(c, [route |-> "GetAllArticles", body |-> <<>>, id |-> <<>>,
                   failed |-> failed])
    /\ calls' = [calls EXCEPT ![c] = << "GetAllArticles" >>]
    /\ resp' = [resp EXCEPT ![c] =
                  IF failed
                    THEN GetAllArticlesResponse(NilSlice, IOError)
                    ELSE GetAllArticlesResponse(GetAllArticlesRows(articles), "")]
    /\ pc' = [pc EXCEPT ![c] = "done"]
    /\ queryText' = [queryText EXCEPT ![c] = <<>>]
    /\ UNCHANGED << db, static >>

\* SearchHandler.HealthCheck
HealthCheck(c) ==
  /\ Receive(c, [route |-> "HealthCheck", body |-> <<>>, id |-> <<>>,
                 failed |-> FALSE])
  /\ calls' = [calls EXCEPT ![c] = <<>>]
  /\ resp' = [resp EXCEPT ![c] =
                [status |-> 200,
                 body |-> [status |-> "healthy",
                           service |-> "event-to-insight-backend"]]]
  /\ pc' = [pc EXCEPT ![c] = "done"]
  /\ queryText' = [queryText EXCEPT ![c] = <<>>]
  /\ UNCHANGED << db, static >>

\* ------------------------------------------------------------------------
\* The specification
\* ------------------------------------------------------------------------

Next ==
  \E c \in Clients :
    \/ SearchQuery(c)
    \/ CreateQuery(c)
    \/ GetQueryByID(c)
    \/ ProcessGetAllArticles(c)
    \/ AnalyzeQuery(c)
    \/ CreateSearchResult(c)
    \/ GetSearchResultByID(c)
    \/ GetArticlesByIDs(c)
    \/ GetArticle(c)
    \/ GetAllArticles(c)
    \/ HealthCheck(c)

Spec == Init /\ [][Next]_vars

\* ------------------------------------------------------------------------
\* The analysis strategies called directly, as the tests of package ai call
\* them: the arguments are drawn from small sets and the call's record is
\* kept in last
\* ------------------------------------------------------------------------

\* queries for the heuristic: empty, two keywords in upper case, a keyword
\* inside a longer word, pairs of keywords of different rank, no keyword
MockQueries ==
  { <<>>,
    << "Password", " ", "w", " ", "VPN", "?" >>,
    << "w", " ", "passwords" >>,
    << "vpn", " ", "Email" >>,
    << "email", " ", "printer" >>,
    << "Printer", " ", "backup" >>,
    << "software", " ", "antivirus", " ", "remote" >>,
    << "w" >> }

\* article sets handed to a strategy: nil, empty, the seeded catalog as
\* GetAllArticles returns it, and four of its articles in another order
ArticleSets ==
  { NilSlice,
    MakeSlice(<<>>),
    ScanRows(SeededArticles),
    MakeSlice(<< SeededArticles[9], SeededArticles[4], SeededArticles[5],
                 SeededArticles[1] >>) }

\* what every direct call leaves alone: the server's requests and the
\* frontend
requests ==
  << aiService, pc, request, queryText, lastID, query, arts, aiResult, calls,
     ret, resp, generated, frontend >>

\* what a call of the heuristic keeps of the call before it: the record of
\* a call of the heuristic, without that call's own predecessor
Forget(r) ==
  IF r.op = "MockAnalyzeQuery" THEN [f \in DOMAIN r \ { "prev" } |-> r[f]]
                               ELSE NoCall

\* the call as it would be with relevantArticles a field of the service
\* instead of a local: the ids of the call before are still in it
CallMockAnalyzeQueryKeepsIDs ==
  \E q \in MockQueries, a \in ArticleSets :
    LET kept == IF last.op = "MockAnalyzeQuery"
                  THEN last.result.RelevantArticles ELSE NilSlice
        relevantArticles == MockRelevant(ToLower(q), a.elems, kept)
    IN  /\ received < MaxCalls
        /\ received' = received + 1
        /\ last' = [op |-> "MockAnalyzeQuery", query |-> q, articles |-> a,
                    result |-> [Summary |-> MockSummary(ToLower(q), relevantArticles),
                                RelevantArticles |-> relevantArticles],
                    err |-> <<>>, prev |-> Forget(last)]
        /\ UNCHANGED << db, schema, requests >>

\* m.AnalyzeQuery(query, articles) on a MockAIService; the record keeps the
\* call before it, for comparison
CallMockAnalyzeQuery ==
  \E q \in MockQueries, a \in ArticleSets :
    /\ received < MaxCalls
    /\ received' = received + 1
    /\ last' = [op |-> "MockAnalyzeQuery", query |-> q, articles |-> a,
                result |-> MockAnalyzeQuery(q, a.elems), err |-> <<>>,
                prev |-> Forget(last)]
    /\ UNCHANGED << db, schema, requests >>

\* SUMMARY lines of an answer: none, a text, a text between whitespace, only
\* whitespace
SummaryLines ==
  { <<>>,
    << << "SUMMARY:", " ", "w" >> >>,
    << << " ", "SUMMARY:", "\t", "w", " ", "v", " ", "\r" >> >>,
    << << "SUMMARY:", " ", "\t" >> >> }

\* RELEVANT_ARTICLES lines of an answer: none, the word none, no value, ids
\* among an unknown id and a word, one id twice, and signed numerals, a
\* numeral with a blank in it and an empty field among ids
RelevantLines ==
  { <<>>,
    << << "RELEVANT_ARTICLES:", " ", "none" >> >>,
    << << "RELEVANT_ARTICLES:", " " >> >>,
    << << "RELEVANT_ARTICLES:", " ", "3", ",", "9", "9", ",", "x", ",", " ",
          "1" >> >>,
    << << " ", "RELEVANT_ARTICLES:", "2", ",", " ", "2" >> >>,
    << << "RELEVANT_ARTICLES:", "+", "4", ",", "-", "1", ",", "1", " ", "2",
          ",", ",", "5", " " >> >> }

\* lines that begin with neither prefix: none, a blank line, and prose that
\* names both prefixes further in
ExtraLines ==
  { <<>>,
    << << >> >>,
    << << "w", " ", "SUMMARY:", " ", "v", " ", "RELEVANT_ARTICLES:", " ",
          "7" >> >> }

\* answers with two SUMMARY lines
TwoSummaryAnswers ==
  { << << "SUMMARY:", " ", "w" >>, << "SUMMARY:" >> >>,
    << << "SUMMARY:" >>, << "SUMMARY:", " ", "v" >>,
       << "RELEVANT_ARTICLES:", " ", "1" >> >> }

\* the answers handed to parseResponse, as lists of lines: a SUMMARY line, a
\* RELEVANT_ARTICLES line and another line, each present or not, in every
\* order
AnswerLines ==
  { LET part == << s, r, e >>
    IN  part[o[1]] \o part[o[2]] \o part[o[3]] :
      s \in SummaryLines, r \in RelevantLines, e \in ExtraLines,
      o \in Permutations(1..3) }
  \cup TwoSummaryAnswers

\* the text of an answer: its lines with a newline between them
RECURSIVE JoinLines(_)
JoinLines(lines) ==
  IF lines = <<>> THEN <<>>
  ELSE IF Len(lines) = 1 THEN lines[1]
  ELSE lines[1] \o << "\n" >> \o JoinLines(Tail(lines))

\* the article sets handed to parseResponse: the seeded catalog, and four of
\* its articles, without those of id 2 and 3
ParseArticleSets ==
  { ScanRows(SeededArticles),
    MakeSlice(<< SeededArticles[9], SeededArticles[4], SeededArticles[5],
                 SeededArticles[1] >>) }

\* g.parseResponse(responseText, articles) on a GeminiService
CallParseResponse ==
  \E lines \in AnswerLines, a \in ParseArticleSets :
    /\ received < MaxCalls
    /\ received' = received + 1
    /\ last' = [op |-> "parseResponse", lines |-> lines,
                response |-> JoinLines(lines), articles |-> a,
                result |-> parseResponse(JoinLines(lines), a.elems),
                err |-> <<>>]
    /\ UNCHANGED << db, schema, requests >>

\* the start of main in some environment: LoadConfig and the selection of
\* the strategy
CallLoadConfig ==
  \E env \in Envs :
    \E r \in InitializeAIService(LoadConfig(env)) :
      /\ received < MaxCalls
      /\ received' = received + 1
      /\ last' = [op |-> "main", env |-> env, cfg |-> LoadConfig(env),
                  log |-> r.log, service |-> r.service, err |-> r.err]
      /\ UNCHANGED << db, schema, requests >>

NextAI ==
  \/ CallMockAnalyzeQuery
  \/ CallParseResponse
  \/ CallLoadConfig

\* the strategies are called in a program started with the default
\* configuration
InitAI == Init /\ aiService = "mock"

SpecAI == InitAI /\ [][NextAI]_vars

\* ------------------------------------------------------------------------
\* The storage adapter called directly, one call after the other, as the
\* tests of package database call it, from a store just opened
\* ------------------------------------------------------------------------

\* the CREATE TABLE IF NOT EXISTS statements of createTables, in order
SchemaTables == << "articles", "queries", "search_results" >>

\* the tables there are after the first k statements of createTables
TablesAfter(k) == schema \cup { SchemaTables[i] : i \in 1..k }

\* the error of a statement on table: the table is missing, or the
\* statement fails on an existing table
StatementErrors(table) ==
  IF table \in schema THEN { IOError } ELSE { "no such table" }

\* arguments of the direct calls: a query text, a summary, the ids of
\* queries and results, and id lists: nil, empty, and one with an id twice, a
\* negative id and an id of no article, not in id order
DirectQueryText == << "w" >>
DirectSummary == << "v" >>
DirectIDs == { 1, 2 }
IDLists == { NilSlice, MakeSlice(<<>>), MakeSlice(<< 3, -1, 3, 99, 1 >>) }

\* NewSQLiteDB on a new file: no table yet
InitDB ==
  /\ articles = <<>>
  /\ queries = <<>>
  /\ search_results = <<>>
  /\ now = 1
  /\ schema = {}
  /\ last = NoCall
  /\ received = 0
  /\ aiService = "mock"
  /\ generated = [c \in Clients |-> 0]
  /\ pc = [c \in Clients |-> "idle"]
  /\ request = [c \in Clients |-> NoRequest]
  /\ queryText = [c \in Clients |-> <<>>]
  /\ lastID = [c \in Clients |-> 0]
  /\ query = [c \in Clients |-> NoQuery]
  /\ arts = [c \in Clients |-> NilSlice]
  /\ aiResult = [c \in Clients |-> NoResult]
  /\ calls = [c \in Clients |-> <<>>]
  /\ ret = [c \in Clients |-> NoReturn]
  /\ resp = [c \in Clients |-> NoResp]
  /\ InitFrontend

\* one more direct call
Called == received < MaxOps /\ received' = received + 1

\* Initialize as it would be without the count check of seedArticles
CallInitializeAlwaysSeeds ==
  /\ Called
  /\ \/ \E k \in 1..Len(SchemaTables) :
          /\ schema' = TablesAfter(k - 1)
          /\ last' = [op |-> "Initialize",
                      err |-> << "failed to create tables" >>]
          /\ UNCHANGED articles
     \/ /\ schema' = TablesAfter(Len(SchemaTables))
        /\ articles' = articles \o
             [i \in 1..Len(Catalog) |->
                [id |-> NextID(articles) + i - 1, title |-> Catalog[i].title,
                 content |-> Catalog[i].content]]
        /\ last' = [op |-> "Initialize", err |-> <<>>]
  /\ UNCHANGED << queries, search_results, now, requests >>

\* db.Initialize(): createTables, whose k-th statement may fail, then
\* seedArticles: the count, which may fail, nothing more when there are
\* articles, else the INSERTs one by one, without a transaction; count is
\* what seedArticles counted
CallInitialize ==
  /\ Called
  /\ \/ \E k \in 1..Len(SchemaTables) :
          /\ schema' = TablesAfter(k - 1)
          /\ last' = [op |-> "Initialize",
                      err |-> << "failed to create tables" >>]
          /\ UNCHANGED articles
     \/ /\ schema' = TablesAfter(Len(SchemaTables))
        /\ \/ /\ last' = [op |-> "Initialize",
                           err |-> << "failed to seed articles" >>]
              /\ UNCHANGED articles
           \/ /\ Len(articles) > 0
              /\ last' = [op |-> "Initialize", count |-> Len(articles),
                          err |-> <<>>]
              /\ UNCHANGED articles
           \/ /\ Len(articles) = 0
              /\ \E k \in 1..Len(Catalog) :
                   articles' = SubSeq(SeededArticles, 1, k - 1)
              /\ last' = [op |-> "Initialize", count |-> Len(articles),
                          err |-> << "failed to seed articles",
                                     "failed to insert article" >>]
           \/ /\ Len(articles) = 0
              /\ articles' = SeededArticles
              /\ last' = [op |-> "Initialize", count |-> Len(articles),
                          err |-> <<>>]
  /\ UNCHANGED << queries, search_results, now, requests >>

\* db.CreateQuery(text): the INSERT, then GetQueryByID of the new id
CallCreateQuery ==
  /\ Called
  /\ \/ /\ "queries" \in schema
        /\ queries' = Append(queries, NewQueryRow(DirectQueryText))
        /\ now' = now + 1
        /\ \/ last' = [op |-> "CreateQuery", text |-> DirectQueryText,
                        inserted |-> NextID(queries),
                        result |-> ScanQuery(RowByID(queries', NextID(queries))[1]),
                        err |-> ""]
           \/ last' = [op |-> "CreateQuery", text |-> DirectQueryText,
                        inserted |-> NextID(queries), err |-> IOError]
     \/ /\ \E e \in StatementErrors("queries") :
             last' = [op |-> "CreateQuery", text |-> DirectQueryText,
                      inserted |-> 0, err |-> e]
        /\ UNCHANGED << queries, now >>
  /\ UNCHANGED << articles, search_results, schema, requests >>

\* db.CreateSearchResult(queryID, summary, ids): json.Marshal, the INSERT,
\* then GetSearchResultByID of the new id.  PRAGMA foreign_keys = ON was set
\* on one connection of the pool: an INSERT for a query_id of no query fails
\* on that connection and succeeds on another.
CallCreateSearchResult ==
  \E queryID \in DirectIDs, ids \in IDLists :
    /\ Called
    /\ \/ /\ "search_results" \in schema
          /\ search_results' =
               Append(search_results, NewResultRow(queryID, DirectSummary, ids))
          /\ now' = now + 1
          /\ \/ last' = [op |-> "CreateSearchResult", queryID |-> queryID,
                          summary |-> DirectSummary, ids |-> ids,
                          inserted |-> NextID(search_results),
                          result |-> ScanSearchResult(
                            RowByID(search_results', NextID(search_results))[1]),
                          err |-> ""]
             \/ last' = [op |-> "CreateSearchResult", queryID |-> queryID,
                          summary |-> DirectSummary, ids |-> ids,
                          inserted |-> NextID(search_results), err |-> IOError]
       \/ /\ \E e \in StatementErrors("search_results") \cup
                       ( IF RowByID(queries, queryID) = <<>>
                           THEN { "FOREIGN KEY constraint failed" } ELSE {} ) :
               last' = [op |-> "CreateSearchResult", queryID |-> queryID,
                        summary |-> DirectSummary, ids |-> ids,
                        inserted |-> 0, err |-> e]
          /\ UNCHANGED << search_results, now >>
    /\ UNCHANGED << articles, queries, schema, requests >>

\* db.GetSearchResultByID(id)
CallGetSearchResultByID ==
  \E id \in DirectIDs :
    /\ Called
    /\ \/ /\ "search_results" \in schema
          /\ last' =
               IF RowByID(search_results, id) = <<>>
                 THEN [op |-> "GetSearchResultByID", id |-> id, err |-> ErrNoRows]
                 ELSE [op |-> "GetSearchResultByID", id |-> id, err |-> "",
                       result |-> ScanSearchResult(RowByID(search_results, id)[1])]
       \/ \E e \in StatementErrors("search_results") :
            last' = [op |-> "GetSearchResultByID", id |-> id, err |-> e]
    /\ UNCHANGED << db, schema, requests >>

\* what a call of GetSearchResultByQueryID keeps of the call before it: the
\* record of such a call, without that call's own predecessor
Before(r) ==
  IF r.op = "GetSearchResultByQueryID" THEN [f \in DOMAIN r \ { "prev" } |-> r[f]]
                                       ELSE NoCall

\* GetSearchResultByQueryID as it would be if the row scanned were any row
\* of the query, not the first of the table scan
CallGetSearchResultByQueryIDAnyRow ==
  \E queryID \in DirectIDs :
    LET rows == SelectSeq(search_results, LAMBDA r : r.query_id = queryID)
    IN  /\ Called
        /\ \/ /\ "search_results" \in schema
              /\ IF rows = <<>>
                   THEN last' = [op |-> "GetSearchResultByQueryID",
                                 queryID |-> queryID, err |-> ErrNoRows,
                                 prev |-> Before(last)]
                   ELSE \E i \in 1..Len(rows) :
                          last' = [op |-> "GetSearchResultByQueryID",
                                   queryID |-> queryID, err |-> "",
                                   result |-> ScanSearchResult(rows[i]),
                                   prev |-> Before(last)]
           \/ \E e \in StatementErrors("search_results") :
                last' = [op |-> "GetSearchResultByQueryID", queryID |-> queryID,
                         err |-> e, prev |-> Before(last)]
        /\ UNCHANGED << db, schema, requests >>

\* db.GetSearchResultByQueryID(queryID): QueryRow scans the first row of
\* SELECT ... WHERE query_id = ?, a scan of the table in rowid order (there
\* is no index on query_id); the record keeps the call before it, for
\* comparison
CallGetSearchResultByQueryID ==
  \E queryID \in DirectIDs :
    LET rows == SelectSeq(search_results, LAMBDA r : r.query_id = queryID)
    IN  /\ Called
        /\ \/ /\ "search_results" \in schema
              /\ last' =
                   IF rows = <<>>
                     THEN [op |-> "GetSearchResultByQueryID", queryID |-> queryID,
                           err |-> ErrNoRows, prev |-> Before(last)]
                     ELSE [op |-> "GetSearchResultByQueryID", queryID |-> queryID,
                           err |-> "", result |-> ScanSearchResult(rows[1]),
                           prev |-> Before(last)]
           \/ \E e \in StatementErrors("search_results") :
                last' = [op |-> "GetSearchResultByQueryID", queryID |-> queryID,
                         err |-> e, prev |-> Before(last)]
        /\ UNCHANGED << db, schema, requests >>

\* db.GetArticlesByIDs(ids): the statement is run, and can fail, for a list
\* that is not empty
CallGetArticlesByIDs ==
  \E ids \in IDLists :
    /\ Called
    /\ \/ /\ Len(ids.elems) = 0 \/ "articles" \in schema
          /\ last' = [op |-> "GetArticlesByIDs", ids |-> ids,
                      queried |-> Len(ids.elems) > 0,
                      result |-> GetArticlesByIDsRows(ids, articles), err |-> ""]
       \/ /\ Len(ids.elems) > 0
          /\ \E e \in StatementErrors("articles") :
               last' = [op |-> "GetArticlesByIDs", ids |-> ids, queried |-> TRUE,
                        result |-> NilSlice, err |-> e]
    /\ UNCHANGED << db, schema, requests >>

\* GET /articles served over the store: db.GetAllArticles() through
\* SearchService.GetAllArticles, and what SearchHandler.GetAllArticles writes
CallGetAllArticles ==
  /\ Called
  /\ \/ /\ "articles" \in schema
        /\ last' = [op |-> "GetAllArticles",
                    result |-> GetAllArticlesRows(articles), err |-> "",
                    resp |-> GetAllArticlesResponse(GetAllArticlesRows(articles), "")]
     \/ \E e \in StatementErrors("articles") :
          last' = [op |-> "GetAllArticles", result |-> NilSlice, err |-> e,
                   resp |-> GetAllArticlesResponse(NilSlice, e)]
  /\ UNCHANGED << db, schema, requests >>

NextDB ==
  \/ CallInitialize
  \/ CallGetAllArticles
  \/ CallCreateQuery
  \/ CallCreateSearchResult
  \/ CallGetSearchResultByID
  \/ CallGetSearchResultByQueryID
  \/ CallGetArticlesByIDs

SpecDB == InitDB /\ [][NextDB]_vars

\* ------------------------------------------------------------------------
\* The storage adapter called directly on the store as main leaves it:
\* Initialize has succeeded on a new file
\* ------------------------------------------------------------------------

InitStore == Init /\ aiService = "mock"

NextStore ==
  \/ CallCreateQuery
  \/ CallCreateSearchResult
  \/ CallGetSearchResultByID
  \/ CallGetSearchResultByQueryID

SpecStore == InitStore /\ [][NextStore]_vars

\* ------------------------------------------------------------------------
\* The frontend: App and its SearchBar, and the search requests on their way
\* ------------------------------------------------------------------------

\* the server side, which no step of the frontend changes
backend ==
  << articles, queries, search_results, now, aiService, pc, request,
     queryText, lastID, query, arts, aiResult, calls, ret, resp, received,
     generated, schema, last >>

\* texts typed into the input: nothing, whitespace only, a text without
\* keyword between blanks, a text with a keyword
TypedTexts ==
  { <<>>,
    << " ", "\t" >>,
    << " ", "w", " " >>,
    << "Password", " ", "w" >> }

\* String.prototype.trim and String.prototype.includes
trim(s) == TrimSpace(s)

includes(s, phrase) == Contains(s, phrase)

\* the props App passes to SearchBar: onSearchResult and onSearchError;
\* onNoResults is not passed and is undefined in SearchBar
SearchBarProps ==
  [onSearchResult |-> "handleSearchResult", onSearchError |-> "handleSearchError"]

\* App.handleSearchResult and App.handleSearchError: the state they set
handleSearchResult(result) ==
  [searchResult |-> [null |-> FALSE, data |-> result], error |-> <<>>]

handleSearchError(errorMessage) ==
  [searchResult |-> NoSearchResult, error |-> errorMessage]

\* what the await of searchAPI.searchQuery(q) can settle to: resolved with
\* the body of a 200, which the server builds from the result of either
\* strategy; rejected with the response of a 500 or of a 400 (the latter
\* without message); rejected without response (network error, timeout)
SearchOutcomes(q) ==
  { [kind |-> "resolved",
     data |-> EncodeResponse(
       [Query |-> q,
        AISummaryAnswer |-> r.Summary,
        AIRelevantArticles |->
          GetArticlesByIDsRows(r.RelevantArticles, SeededArticles),
        QueryID |-> 1,
        Timestamp |-> 1])] :
      r \in { MockAnalyzeQuery(q, SeededArticles) } \cup
            { parseResponse(a, SeededArticles) : a \in GeminiAnswers } }
  \cup
  { [kind |-> "rejected", response |-> TRUE,
     data |-> ErrorResponse(500, "Failed to process search query",
                << "failed to analyze query", "no response generated" >>).body],
    [kind |-> "rejected", response |-> TRUE,
     data |-> ErrorResponse(400, "Query is required", <<>>).body],
    [kind |-> "rejected", response |-> FALSE, data |-> <<>>] }

\* the message of the catch block: error.response?.data?.message, else
\* error.response?.data?.error, else the fixed text
ErrorMessage(o) ==
  IF o.response /\ "message" \in DOMAIN o.data THEN o.data.message
  ELSE IF o.response /\ "error" \in DOMAIN o.data THEN << o.data.error >>
  ELSE << "Failed to search. Please try again." >>

\* the test of the try block for a "no results found" response
IsNoResults(result) ==
  /\ Len(result.ai_relevant_articles.items) = 0
  /\ includes(result.ai_summary_answer, "couldn't find specific information")

\* handleSubmit from the await on as it would be with setIsLoading(false)
\* at the end of the try block instead of in a finally block
SettleNoFinally ==
  /\ inFlight # <<>>
  /\ \E o \in SearchOutcomes(Head(inFlight).query) :
       LET threw == \/ o.kind = "rejected"
                    \/ o.data.ai_relevant_articles.null
                    \/ IsNoResults(o.data) /\ "onNoResults" \notin DOMAIN SearchBarProps
           caught == IF o.kind = "rejected" THEN o
                     ELSE [kind |-> "rejected", response |-> FALSE, data |-> <<>>]
           called == IF threw THEN "onSearchError"
                     ELSE IF IsNoResults(o.data) THEN "onNoResults"
                     ELSE "onSearchResult"
       IN  /\ app' = IF called = "onSearchError"
                       THEN handleSearchError(ErrorMessage(caught))
                     ELSE IF called = "onSearchResult"
                       THEN handleSearchResult(o.data)
                     ELSE app
           /\ submit' = [submit EXCEPT !.callbacks = Append(@, called),
                                       !.settled = TRUE, !.outcome = o]
           /\ searchBar' = [searchBar EXCEPT !.isLoading = threw]
  /\ inFlight' = Tail(inFlight)
  /\ UNCHANGED << submitted, backend >>

\* onChange of the input, which is disabled while isLoading: setQuery
SetQuery ==
  /\ ~searchBar.isLoading
  /\ \E text \in TypedTexts :
       /\ text # searchBar.query
       /\ searchBar' = [searchBar EXCEPT !.query = text]
  /\ UNCHANGED << app, inFlight, submit, submitted, backend >>

\* handleSubmit up to its await.  The form is submitted from the button or
\* the input, both disabled while isLoading, or, for a blank text with
\* which the button is disabled too, by a submit dispatched on the form.
HandleSubmit ==
  /\ ~searchBar.isLoading
  /\ submitted < MaxSubmits
  /\ submitted' = submitted + 1
  /\ IF trim(searchBar.query) = <<>>
       THEN /\ app' = handleSearchError(<< "Please enter a search query" >>)
            /\ submit' = [query |-> searchBar.query, sent |-> 0,
                          callbacks |-> << "onSearchError" >>, settled |-> TRUE,
                          outcome |-> [kind |-> "none"]]
            /\ UNCHANGED << searchBar, inFlight >>
       ELSE /\ searchBar' = [searchBar EXCEPT !.isLoading = TRUE]
            /\ inFlight' = Append(inFlight, [query |-> trim(searchBar.query)])
            /\ submit' = [query |-> searchBar.query, sent |-> 1,
                          callbacks |-> <<>>, settled |-> FALSE,
                          outcome |-> [kind |-> "none"]]
            /\ UNCHANGED app
  /\ UNCHANGED backend

\* handleSubmit from the await on, run to its end: the try block, the catch
\* block for a rejected request or for an exception of the try block (the
\* length of a null list, the call of a prop that is undefined), and the
\* finally block
Settle ==
  /\ inFlight # <<>>
  /\ \E o \in SearchOutcomes(Head(inFlight).query) :
       LET threw == \/ o.kind = "rejected"
                    \/ o.data.ai_relevant_articles.null
                    \/ IsNoResults(o.data) /\ "onNoResults" \notin DOMAIN SearchBarProps
           caught == IF o.kind = "rejected" THEN o
                     ELSE [kind |-> "rejected", response |-> FALSE, data |-> <<>>]
           called == IF threw THEN "onSearchError"
                     ELSE IF IsNoResults(o.data) THEN "onNoResults"
                     ELSE "onSearchResult"
       IN  /\ app' = IF called = "onSearchError"
                       THEN handleSearchError(ErrorMessage(caught))
                     ELSE IF called = "onSearchResult"
                       THEN handleSearchResult(o.data)
                     ELSE app
           /\ submit' = [submit EXCEPT !.callbacks = Append(@, called),
                                       !.settled = TRUE, !.outcome = o]
  /\ searchBar' = [searchBar EXCEPT !.isLoading = FALSE]
  /\ inFlight' = Tail(inFlight)
  /\ UNCHANGED << submitted, backend >>

\* what App renders: the error box, SearchResults, and in it the box
\* "No Specific Articles Found" for a result without articles
ErrorShown == app.error # <<>>

ResultsShown == ~app.searchResult.null

NoResultsShown ==
  ResultsShown /\ Len(app.searchResult.data.ai_relevant_articles.items) = 0

NextUI ==
  \/ SetQuery
  \/ HandleSubmit
  \/ Settle

InitUI == Init /\ aiService = "mock"

SpecUI == InitUI /\ [][NextUI]_vars

\* ------------------------------------------------------------------------
\* Vocabulary of the properties
\* ------------------------------------------------------------------------

\* the five steps of ProcessSearchQuery and the error prefix of each
StepOrder ==
  << "CreateQuery", "GetAllArticles", "AnalyzeQuery", "CreateSearchResult",
     "GetArticlesByIDs" >>

StepErrorPrefix ==
  << "failed to create query", "failed to get articles",
     "failed to analyze query", "failed to save search result",
     "failed to get relevant articles" >>

IsPrefix(s, t) == Len(s) <= Len(t) /\ s = SubSeq(t, 1, Len(s))

IsSearch(c) == request[c].route = "SearchQuery"

\* ProcessSearchQuery has returned an error / a response for c's request
Failed(c) == IsSearch(c) /\ ret[c].called /\ ret[c].err # <<>>

Succeeded(c) == IsSearch(c) /\ ret[c].called /\ ret[c].err = <<>>

\* the step at which c's request failed: the last one it called
FailedStep(c) == Len(calls[c])

\* a query text without any character that is not whitespace
IsBlank(q) == \A i \in 1..Len(q) : q[i] \in WhiteSpace

\* a body that must be refused: unparsable, without query, or blank query
BadBody(body) == body.kind \in {"malformed", "noquery"} \/ IsBlank(body.query)

\* an id segment that is an integer of the int type: an optional sign and
\* one or more digits, short enough to fit
IsIntSegment(s) ==
  /\ s # <<>>
  /\ LET d == IF Head(s) \in {"-", "+"} THEN Tail(s) ELSE s
     IN  d # <<>> /\ Len(d) <= 18 /\ \A i \in 1..Len(d) : d[i] \in Digits

IntOfSegment(s) ==
  IF Head(s) = "-" THEN 0 - DigitsValue(Tail(s), 0)
  ELSE IF Head(s) = "+" THEN DigitsValue(Tail(s), 0)
  ELSE DigitsValue(s, 0)

Stored(id) == \E i \in 1..Len(articles) : articles[i].id = id

IDsOf(rows) == { rows[i].id : i \in 1..Len(rows) }

Elems(s) == { s[i] : i \in 1..Len(s) }

\* ------------------------------------------------------------------------
\* C1
\* ------------------------------------------------------------------------

\* C1: a search request calls the five steps in the fixed order, each at
\* most once; when ProcessSearchQuery returns an error, the request is over
\* with the failing step as its last call, the response is nil, and the error
\* starts with that step's own prefix; a response is returned only after all
\* five steps.
C1_StepsInOrder ==
  \A c \in Clients :
    IsSearch(c) =>
      /\ IsPrefix(calls[c], StepOrder)
      /\ Failed(c) =>
           /\ pc[c] = "done"
           /\ ret[c].nil
           /\ FailedStep(c) \in 1..5
           /\ Head(ret[c].err) = StepErrorPrefix[FailedStep(c)]
           /\ \A k \in 1..5 :
                k # FailedStep(c) => Head(ret[c].err) # StepErrorPrefix[k]
      /\ Succeeded(c) => calls[c] = StepOrder /\ ~ret[c].nil

\* a request that failed at step 4, so that step 5 was never called
C1_Witness ==
  \E c \in Clients :
    /\ Failed(c)
    /\ calls[c] = SubSeq(StepOrder, 1, 4)
    /\ Head(ret[c].err) = "failed to save search result"

\* ------------------------------------------------------------------------
\* C2
\* ------------------------------------------------------------------------

\* C2: no step deletes or changes a row of queries or search_results; and in
\* the step in which a request fails at step 2, 3, 4 or 5 its Query row is in
\* storage afterwards, and when it fails at step 5 its SearchResult row too.
C2_NoRollback ==
  [][ /\ IsPrefix(queries, queries')
      /\ IsPrefix(search_results, search_results')
      /\ \A c \in Clients :
           ( /\ pc[c] \in { "GetAllArticles", "AnalyzeQuery", "CreateSearchResult",
                            "GetSearchResultByID", "GetArticlesByIDs" }
             /\ pc'[c] = "done"
             /\ ret'[c].err # <<>> )
           => /\ \E i \in 1..Len(queries') :
                   queries'[i] = [id |-> query[c].ID, query |-> queryText[c],
                                  created_at |-> query[c].CreatedAt]
              /\ pc[c] = "GetArticlesByIDs" =>
                   \E j \in 1..Len(search_results') :
                     /\ search_results'[j].id = lastID[c]
                     /\ search_results'[j].query_id = query[c].ID
    ]_vars

\* a request has failed at step 5 while two Query rows and a SearchResult
\* row are stored
C2_Witness ==
  \E c \in Clients :
    /\ Failed(c)
    /\ FailedStep(c) = 5
    /\ Len(queries) = 2
    /\ Len(search_results) >= 1

\* ------------------------------------------------------------------------
\* C3
\* ------------------------------------------------------------------------

\* C3: when ProcessSearchQuery has returned a response for query text q,
\* storage holds exactly one Query with the response's query_id, with text q
\* and the response's timestamp, and exactly one SearchResult of that query,
\* with the summary and the id list the analysis returned; the response
\* carries q and that summary; and no request adds more than one row to
\* either table.
C3_SuccessRecords ==
  /\ Len(queries) <= received
  /\ Len(search_results) <= Len(queries)
  /\ \A c \in Clients :
       Succeeded(c) =>
         LET r == ret[c].response
             q == request[c].body.query
             qrows == SelectSeq(queries, LAMBDA x : x.id = r.QueryID)
             srows == SelectSeq(search_results, LAMBDA x : x.query_id = r.QueryID)
         IN  /\ Len(qrows) = 1
             /\ qrows[1].query = q
             /\ qrows[1].created_at = r.Timestamp
             /\ Len(srows) = 1
             /\ srows[1].ai_summary_answer = aiResult[c].Summary
             /\ UnmarshalInts(srows[1].ai_relevant_articles)
                  = aiResult[c].RelevantArticles
             /\ r.Query = q
             /\ r.AISummaryAnswer = aiResult[c].Summary
             /\ resp[c].body.query = q
             /\ resp[c].body.ai_summary_answer = aiResult[c].Summary
             /\ resp[c].body.query_id = qrows[1].id
             /\ resp[c].body.timestamp = qrows[1].created_at

\* two requests with different texts have both succeeded, the second Query
\* row belonging to a request that found relevant articles
C3_Witness ==
  \E c, d \in Clients :
    /\ Succeeded(c) /\ Succeeded(d)
    /\ request[c].body.query # request[d].body.query
    /\ ret[c].response.QueryID = 2
    /\ Len(aiResult[c].RelevantArticles.elems) > 0

\* ------------------------------------------------------------------------
\* C4
\* ------------------------------------------------------------------------

\* C4: every search request with an unparsable body, no query or a blank
\* query, and every article request whose id segment is no integer, is
\* answered 400; a request answered 400 has called neither storage nor the
\* analysis component; and a step that changes a table is a storage call of a
\* request that is not answered 400.
C4_RejectedBeforeStorage ==
  [][ /\ \A c \in Clients :
           /\ (request'[c].route = "SearchQuery" /\ BadBody(request'[c].body))
                => resp'[c].status = 400
           /\ (request'[c].route = "GetArticle" /\ ~IsIntSegment(request'[c].id))
                => resp'[c].status = 400
           /\ resp'[c].status = 400
                => calls'[c] = <<>> /\ ~ret'[c].called /\ pc'[c] = "done"
      /\ (queries' # queries \/ search_results' # search_results)
           => \E c \in Clients :
                /\ calls'[c] # calls[c]
                /\ calls'[c] # <<>>
                /\ resp'[c].status # 400
    ]_vars

\* a whitespace-only query and a non-integer article id have both been
\* answered 400, with nothing stored
C4_Witness ==
  \E c, d \in Clients :
    /\ request[c].route = "SearchQuery"
    /\ request[c].body = [kind |-> "query", query |-> << " ", "\t", "\n" >>]
    /\ resp[c].status = 400
    /\ request[d].route = "GetArticle"
    /\ request[d].id = << "invalid" >>
    /\ resp[d].status = 400
    /\ queries = <<>>
    /\ search_results = <<>>

\* ------------------------------------------------------------------------
\* C5
\* ------------------------------------------------------------------------

\* C5: a finished search request with a non-blank query is answered 200
\* with the SearchResponse exactly when all five steps were called and
\* ProcessSearchQuery returned no error, and 500 with an error body exactly
\* when ProcessSearchQuery returned an error; it is answered nothing else.
C5_StatusMatchesOutcome ==
  \A c \in Clients :
    (IsSearch(c) /\ pc[c] = "done" /\ ~BadBody(request[c].body)) =>
      /\ resp[c].status \in {200, 500}
      /\ resp[c].status = 200 <=> (Succeeded(c) /\ calls[c] = StepOrder)
      /\ resp[c].status = 500 <=> Failed(c)
      /\ resp[c].status = 200 => resp[c].body = EncodeResponse(ret[c].response)
      /\ resp[c].status = 500 =>
           /\ resp[c].body.error = "Failed to process search query"
           /\ resp[c].body.message = ret[c].err

\* one request answered 200 and another answered 500
C5_Witness ==
  \E c, d \in Clients :
    /\ IsSearch(c) /\ pc[c] = "done" /\ resp[c].status = 200
    /\ IsSearch(d) /\ pc[d] = "done" /\ resp[d].status = 500

\* ------------------------------------------------------------------------
\* C6
\* ------------------------------------------------------------------------

\* C6: GET /articles/{id} is answered 400 when the id segment is no integer,
\* 404 when it is an integer that no stored article has, and 200 only when
\* it is an integer that a stored article has, the body being that article.
C6_GetArticleStatus ==
  \A c \in Clients :
    (request[c].route = "GetArticle" /\ pc[c] = "done") =>
      LET s == request[c].id
      IN  /\ resp[c].status \in {200, 400, 404}
          /\ ~IsIntSegment(s) => resp[c].status = 400
          /\ resp[c].status = 400 => ~IsIntSegment(s)
          /\ (IsIntSegment(s) /\ ~Stored(IntOfSegment(s))) => resp[c].status = 404
          /\ resp[c].status = 200 =>
               /\ IsIntSegment(s)
               /\ Stored(IntOfSegment(s))
               /\ resp[c].body.id = IntOfSegment(s)
               /\ \E i \in 1..Len(articles) : articles[i] = resp[c].body

\* a negative id answered 404 and a signed stored id answered 200
C6_Witness ==
  \E c, d \in Clients :
    /\ request[c].route = "GetArticle"
    /\ request[c].id = << "-", "1" >>
    /\ resp[c].status = 404
    /\ request[d].route = "GetArticle"
    /\ request[d].id = << "+", "1", "0" >>
    /\ resp[d].status = 200

\* ------------------------------------------------------------------------
\* C7
\* ------------------------------------------------------------------------

\* C7: for GET /articles/{id} with an integer id, the answer is 404 only
\* when no stored article has the id, and a lookup that fails with a storage
\* error is answered 500.
C7_StorageFailureIs500 ==
  \A c \in Clients :
    ( /\ request[c].route = "GetArticle"
      /\ pc[c] = "done"
      /\ IsIntSegment(request[c].id) ) =>
      /\ resp[c].status = 404 => ~Stored(IntOfSegment(request[c].id))
      /\ request[c].failed => resp[c].status = 500

\* ------------------------------------------------------------------------
\* C8
\* ------------------------------------------------------------------------

\* C8: in every response of ProcessSearchQuery the number of articles
\* equals the number of relevant ids the analysis returned, and each
\* article's id is one of those ids.
C8_ArticlesMatchIDs ==
  \A c \in Clients :
    Succeeded(c) =>
      LET found == ret[c].response.AIRelevantArticles.elems
          ids == aiResult[c].RelevantArticles.elems
      IN  /\ Len(found) = Len(ids)
          /\ IDsOf(found) \subseteq Elems(ids)

\* ------------------------------------------------------------------------
\* C9
\* ------------------------------------------------------------------------

\* C9: in every 200 answer to a search request, ai_relevant_articles is a
\* list and not null.
C9_ArticlesNeverNull ==
  \A c \in Clients :
    (IsSearch(c) /\ resp[c].status = 200) =>
      ~resp[c].body.ai_relevant_articles.null

\* a 200 answer whose analysis returned no relevant id: the list is empty
C9_Witness ==
  \E c \in Clients :
    /\ IsSearch(c)
    /\ resp[c].status = 200
    /\ aiResult[c].RelevantArticles.nil
    /\ resp[c].body.ai_relevant_articles = [null |-> FALSE, items |-> <<>>]

\* ------------------------------------------------------------------------
\* C10
\* ------------------------------------------------------------------------

\* after AnalyzeQuery has returned its result to c's request
Analyzed(c) ==
  \/ pc[c] \in {"CreateSearchResult", "GetSearchResultByID", "GetArticlesByIDs"}
  \/ Succeeded(c)

\* C10: every id AnalyzeQuery returns, under either strategy and for every
\* answer of the external model, is the id of an article passed to the call.
C10_IDsFromArticleSet ==
  \A c \in Clients :
    /\ pc[c] = "AnalyzeQuery" =>
         \A r \in AnalysisResults(c) :
           Elems(r.RelevantArticles.elems) \subseteq IDsOf(arts[c].elems)
    /\ Analyzed(c) =>
         Elems(aiResult[c].RelevantArticles.elems) \subseteq IDsOf(arts[c].elems)

\* the external model named 3, 99, x and 1: the result is 3, 1 and the
\* request goes on
C10_Witness ==
  \E c \in Clients :
    /\ aiService = "gemini"
    /\ pc[c] = "CreateSearchResult"
    /\ aiResult[c].RelevantArticles = MakeSlice(<< 3, 1 >>)

\* ------------------------------------------------------------------------
\* C11
\* ------------------------------------------------------------------------

\* some keyword of the closed list occurs in the lower-cased query and in the
\* lower-cased title and content of the article
KeywordInBoth(q, article) ==
  \E kw \in { "password", "vpn", "email", "printer", "software", "backup",
               "antivirus", "remote" } :
    /\ Contains(ToLower(q), kw)
    /\ \/ Contains(ToLower(article.title), kw)
       \/ Contains(ToLower(article.content), kw)

IsMockCall == last.op = "MockAnalyzeQuery"

\* C11: the heuristic's relevant ids are the ids of exactly the supplied
\* articles that share a keyword with the query, in the order of the supplied
\* set, each once.
C11_HeuristicMatches ==
  IsMockCall =>
    LET matching == SelectSeq(last.articles.elems,
                              LAMBDA a : KeywordInBoth(last.query, a))
    IN  last.result.RelevantArticles.elems =
          [i \in 1..Len(matching) |-> matching[i].id]

\* a call whose query names two keywords that both occur in one article of
\* a set that is not in id order: the article's id is returned once, among
\* others
C11_Witness ==
  /\ IsMockCall
  /\ Contains(ToLower(last.query), "software")
  /\ Contains(ToLower(last.query), "antivirus")
  /\ last.articles.elems # <<>>
  /\ last.articles.elems[1].id = 9
  /\ Len(last.result.RelevantArticles.elems) >= 1
  /\ last.result.RelevantArticles.elems[1] = 9

\* ------------------------------------------------------------------------
\* C12
\* ------------------------------------------------------------------------

\* C12: the heuristic's summary is one of the six fixed texts, none empty:
\* the password text when the query contains password, else the vpn text when
\* it contains vpn, else the email text, else the printer text (these four
\* whatever the articles), else the found-information text when some article
\* matched, else the contact-support text.
C12_SummaryCascade ==
  IsMockCall =>
    LET q == ToLower(last.query)
        summary == last.result.Summary
        matched == Len(last.result.RelevantArticles.elems) > 0
        ranked == << "password", "vpn", "email", "printer" >>
        texts == << SummaryPassword, SummaryVPN, SummaryEmail, SummaryPrinter >>
        first == { k \in 1..4 : /\ Contains(q, ranked[k])
                                /\ \A j \in 1..(k - 1) : ~Contains(q, ranked[j]) }
    IN  /\ summary # <<>>
        /\ summary \in { SummaryPassword, SummaryVPN, SummaryEmail,
                          SummaryPrinter, SummaryFound, SummaryNotFound }
        /\ \A k \in first : summary = texts[k]
        /\ (first = {} /\ matched) => summary = SummaryFound
        /\ (first = {} /\ ~matched) => summary = SummaryNotFound
        /\ Cardinality({ SummaryPassword, SummaryVPN, SummaryEmail,
                         SummaryPrinter, SummaryFound, SummaryNotFound }) = 6

\* a query that names password and vpn, against an article set in which
\* nothing matches: the password text all the same
C12_Witness ==
  /\ IsMockCall
  /\ Contains(ToLower(last.query), "password")
  /\ Contains(ToLower(last.query), "vpn")
  /\ last.articles.elems = <<>>
  /\ last.result.RelevantArticles.elems = <<>>
  /\ last.result.Summary = SummaryPassword

\* ------------------------------------------------------------------------
\* C13
\* ------------------------------------------------------------------------

\* C13: every call of the heuristic returns without error, also for the
\* empty query and the nil or empty article set; a call with the query and
\* the article set of the call before it returns the same summary and the
\* same id sequence; and a call changes nothing but its own result.
C13_HeuristicPure ==
  [][ (last' # last /\ last'.op = "MockAnalyzeQuery") =>
        /\ last'.err = <<>>
        /\ last'.result.Summary # <<>>
        /\ ( /\ last'.prev.op = "MockAnalyzeQuery"
             /\ last'.prev.query = last'.query
             /\ last'.prev.articles = last'.articles ) =>
             /\ last'.result.Summary = last'.prev.result.Summary
             /\ last'.result.RelevantArticles = last'.prev.result.RelevantArticles
        /\ last'.prev = Forget(last)
        /\ UNCHANGED << db, schema, requests >> ]_vars

\* the same query, with matches, analysed twice in a row against the same
\* article set, with the same result
C13_Witness ==
  /\ IsMockCall
  /\ last.prev.op = "MockAnalyzeQuery"
  /\ last.prev.query = last.query
  /\ last.prev.articles = last.articles
  /\ Len(last.result.RelevantArticles.elems) > 0
  /\ last.prev.result = last.result

\* ------------------------------------------------------------------------
\* C14
\* ------------------------------------------------------------------------

IsParseCall == last.op = "parseResponse"

\* the lines of an answer that begin, after trimming, with the prefix
LinesWith(lines, prefix) ==
  SelectSeq(lines, LAMBDA l : HasPrefix(TrimSpace(l), prefix))

\* the value of a prefixed line: what follows the prefix, trimmed
ValueOf(line) == TrimSpace(Tail(TrimSpace(line)))

\* the ids a RELEVANT_ARTICLES value names: its comma-separated fields that
\* are integers and ids of supplied articles, in order
NamedIDs(value, supplied) ==
  LET fields == Split(value, ",")
      valid == SelectSeq(fields, LAMBDA f :
                 /\ IsIntSegment(TrimSpace(f))
                 /\ \E i \in 1..Len(supplied) :
                      supplied[i].id = IntOfSegment(TrimSpace(f)))
  IN  [i \in 1..Len(valid) |-> IntOfSegment(TrimSpace(valid[i]))]

\* C14: parseResponse returns no error; for an answer with at most one
\* SUMMARY line and at most one RELEVANT_ARTICLES line the result is that of
\* the answer made of just these lines in the prompt's order, wherever they
\* stand and whatever other lines surround them; the value none or an empty
\* value gives no ids; and the ids are the fields of the value that are
\* integers (and ids of supplied articles), the other fields being skipped.
C14_ParseOrderInsensitive ==
  IsParseCall =>
    LET sl == LinesWith(last.lines, "SUMMARY:")
        rl == LinesWith(last.lines, "RELEVANT_ARTICLES:")
        ids == last.result.RelevantArticles.elems
    IN  /\ last.err = <<>>
        /\ (Len(sl) <= 1 /\ Len(rl) <= 1) =>
             last.result = parseResponse(JoinLines(sl \o rl), last.articles.elems)
        /\ rl = <<>> => ids = <<>>
        /\ Len(rl) = 1 =>
             /\ ValueOf(rl[1]) \in { <<>>, << "none" >> } => ids = <<>>
             /\ ids = NamedIDs(ValueOf(rl[1]), last.articles.elems)

\* an answer whose RELEVANT_ARTICLES line comes first, then another line,
\* then the SUMMARY line; the value has an unknown id and a word between the
\* ids 3 and 1, which are both taken
C14_Witness ==
  /\ IsParseCall
  /\ Len(last.lines) = 3
  /\ HasPrefix(TrimSpace(last.lines[1]), "RELEVANT_ARTICLES:")
  /\ HasPrefix(TrimSpace(last.lines[3]), "SUMMARY:")
  /\ Contains(last.lines[1], "x")
  /\ last.result.RelevantArticles.elems = << 3, 1 >>
  /\ last.result.Summary = << "w" >>

\* ------------------------------------------------------------------------
\* C15
\* ------------------------------------------------------------------------

\* C15: the summary parseResponse returns is the fallback text when the
\* answer has no SUMMARY line or the line's text is empty after trimming,
\* and the trimmed text of the line otherwise (of the last line, when there
\* are several); it is never empty.
C15_SummaryFallback ==
  IsParseCall =>
    LET sl == LinesWith(last.lines, "SUMMARY:")
        text == IF sl = <<>> THEN <<>> ELSE ValueOf(sl[Len(sl)])
    IN  /\ last.result.Summary # <<>>
        /\ text = <<>> => last.result.Summary = SummaryFallback
        /\ text # <<>> => last.result.Summary = text

\* an answer with a SUMMARY line of whitespace only and ids: the fallback
C15_Witness ==
  /\ IsParseCall
  /\ LinesWith(last.lines, "SUMMARY:") # <<>>
  /\ ValueOf(LinesWith(last.lines, "SUMMARY:")[1]) = <<>>
  /\ last.result.RelevantArticles.elems # <<>>
  /\ last.result.Summary = SummaryFallback

\* ------------------------------------------------------------------------
\* C16
\* ------------------------------------------------------------------------

\* the errors the external strategy's AnalyzeQuery returns, each one error,
\* wrapped or plain
ExternalErrors ==
  { << "failed to generate content", "transport error" >>,
    << "no response generated" >> }

\* c's request makes its call of operation op in this step
Calls(c, op) == calls'[c] = Append(calls[c], op)

\* C16: the step in which a request calls AnalyzeQuery makes exactly one
\* request to the external model under the external strategy (none under the
\* heuristic); if the call fails, ProcessSearchQuery returns nil and the one
\* error of the strategy under its own prefix, the request is over after that
\* one attempt, and no SearchResult of its query is in storage; rows of
\* search_results are only added by step 4 of a request whose analysis has
\* returned a result; and NewGeminiService with an empty key returns an error
\* and no service.
C16_NoRetry ==
  [][ /\ \A r \in NewGeminiService("") : r.err # <<>> /\ r.service = "nil"
      /\ \A c \in Clients :
           /\ Calls(c, "AnalyzeQuery") =>
                /\ aiService = "gemini" => generated'[c] = generated[c] + 1
                /\ aiService = "mock" => generated'[c] = generated[c]
                /\ generated'[c] <= 1
                /\ ret'[c].called =>
                     /\ ret'[c].nil
                     /\ pc'[c] = "done"
                     /\ ret'[c].err \in
                          { << "failed to analyze query" >> \o e : e \in ExternalErrors }
                     /\ resp'[c].status = 500
                     /\ search_results' = search_results
                     /\ \A i \in 1..Len(search_results') :
                          search_results'[i].query_id # query[c].ID
           /\ ~Calls(c, "AnalyzeQuery") => generated'[c] <= generated[c]
      /\ search_results' # search_results =>
           \E c \in Clients :
             /\ Calls(c, "CreateSearchResult")
             /\ calls[c][Len(calls[c])] = "AnalyzeQuery"
             /\ ~ret[c].called
             /\ search_results' =
                  Append(search_results,
                         NewResultRow(query[c].ID, aiResult[c].Summary,
                                      aiResult[c].RelevantArticles)) ]_vars

\* a request under the external strategy whose one GenerateContent request
\* returned no candidate: failed at step 3 after one request, nothing saved
C16_Witness ==
  \E c \in Clients :
    /\ aiService = "gemini"
    /\ Failed(c)
    /\ calls[c] = SubSeq(StepOrder, 1, 3)
    /\ generated[c] = 1
    /\ ret[c].err = << "failed to analyze query", "no response generated" >>
    /\ search_results = <<>>
    /\ queries # <<>>

\* ------------------------------------------------------------------------
\* C17
\* ------------------------------------------------------------------------

\* C17: GetArticlesByIDs fails only when its statement fails, never because
\* of the list; what it returns has only stored articles whose id is in the
\* list, each once, and has every stored article whose id is in the list;
\* for the empty list it returns no article and no error and runs no
\* statement.
C17_ArticlesByIDs ==
  last.op = "GetArticlesByIDs" =>
    LET ids == last.ids.elems
        found == last.result.elems
    IN  /\ last.err # "" =>
             /\ last.queried
             /\ last.err \in StatementErrors("articles")
        /\ last.err = "" =>
             /\ IDsOf(found) \subseteq Elems(ids)
             /\ \A i, j \in 1..Len(found) : found[i].id = found[j].id => i = j
             /\ \A i \in 1..Len(found) : found[i] \in Elems(articles)
             /\ \A k \in 1..Len(articles) :
                  articles[k].id \in Elems(ids) => articles[k] \in Elems(found)
        /\ ids = <<>> => last.err = "" /\ found = <<>> /\ ~last.queried

\* the list with the id 3 twice, a negative id and the id 99 of no article,
\* on the seeded store: articles 1 and 3, each once
C17_Witness ==
  /\ last.op = "GetArticlesByIDs"
  /\ last.err = ""
  /\ last.ids.elems = << 3, -1, 3, 99, 1 >>
  /\ Len(articles) = Len(Catalog)
  /\ IDsOf(last.result.elems) = { 1, 3 }
  /\ Len(last.result.elems) = 2

\* ------------------------------------------------------------------------
\* C18
\* ------------------------------------------------------------------------

\* the rows of search_results that belong to the query
ResultsOf(queryID) == SelectSeq(search_results, LAMBDA r : r.query_id = queryID)

\* C18: the record CreateSearchResult returns has the id of the inserted
\* row, the query id and the summary passed, and a list equal to the list
\* passed, element by element; and a GetSearchResultByID of that id, or a
\* GetSearchResultByQueryID of that query while it has no other result,
\* made next, returns the same record.
C18_ResultRoundTrip ==
  [][ /\ (last'.op = "CreateSearchResult" /\ last'.err = "") =>
           /\ last'.result.ID = last'.inserted
           /\ last'.result.QueryID = last'.queryID
           /\ last'.result.AISummaryAnswer = last'.summary
           /\ last'.result.AIRelevantArticles.elems = last'.ids.elems
      /\ (last.op = "CreateSearchResult" /\ last.err = "") =>
           /\ ( /\ last'.op = "GetSearchResultByID"
                /\ last'.id = last.inserted
                /\ last'.err = "" ) =>
                /\ last'.result = last.result
                /\ last'.result.AIRelevantArticles.elems = last.ids.elems
           /\ ( /\ last'.op = "GetSearchResultByQueryID"
                /\ last'.queryID = last.queryID
                /\ Len(ResultsOf(last.queryID)) = 1
                /\ last'.err = "" ) =>
                /\ last'.result = last.result
                /\ last'.result.AIRelevantArticles.elems = last.ids.elems ]_vars

\* the only result of query 1, created with the list that has an id twice,
\* a negative id and the id of no article, fetched by the query's id
C18_Witness ==
  /\ last.op = "GetSearchResultByQueryID"
  /\ last.err = ""
  /\ last.queryID = 1
  /\ Len(ResultsOf(1)) = 1
  /\ RowByID(queries, 1) # <<>>
  /\ last.result.AIRelevantArticles.elems = << 3, -1, 3, 99, 1 >>
  /\ last.result.AISummaryAnswer = DirectSummary

\* ------------------------------------------------------------------------
\* C19
\* ------------------------------------------------------------------------

\* the store as a successful Initialize leaves it: all tables, and articles
HasSeed == schema = Elems(SchemaTables) /\ Len(articles) > 0

\* this step is a call of Initialize
InitializeStep == received' = received + 1 /\ last'.op = "Initialize"

\* C19: a successful Initialize leaves a store with all tables and with
\* articles; from then on no call, of Initialize or of anything else, changes
\* the articles table, and a call of Initialize changes no table at all;
\* rows of queries and search_results are only ever added, never changed.
C19_InitializeIdempotent ==
  [][ /\ (InitializeStep /\ last'.err = <<>>) => HasSeed'
      /\ HasSeed =>
           /\ HasSeed'
           /\ articles' = articles
           /\ InitializeStep =>
                /\ queries' = queries
                /\ search_results' = search_results
                /\ schema' = schema
      /\ InitializeStep => queries' = queries /\ search_results' = search_results
      /\ IsPrefix(queries, queries')
      /\ IsPrefix(search_results, search_results') ]_vars

\* Initialize has succeeded on the store that already had the whole catalog,
\* a query and a result: the catalog is there once, the rows are there
C19_Witness ==
  /\ last.op = "Initialize"
  /\ last.err = <<>>
  /\ last.count = Len(Catalog)
  /\ articles = SeededArticles
  /\ queries # <<>>
  /\ search_results # <<>>

\* ------------------------------------------------------------------------
\* C20
\* ------------------------------------------------------------------------

\* CreateQuery has returned its record to c's request
HasQuery(c) == IsSearch(c) /\ query[c] # NoQuery

\* C20: whatever the interleaving of the requests' INSERTs and fetches, the
\* ids of the rows of queries are positive and grow strictly in the order in
\* which the rows were created; the record CreateQuery returns to a request
\* has the text the request passed and the id and time of a stored row with
\* that text; right after CreateQuery that id is the one the request's own
\* INSERT returned; and two requests never hold the same id.
C20_QueryIDs ==
  /\ \A i \in 1..Len(queries) :
       /\ queries[i].id > 0
       /\ \A j \in 1..Len(queries) : i < j => queries[i].id < queries[j].id
  /\ \A c \in Clients :
       /\ pc[c] = "GetQueryByID" =>
            /\ RowByID(queries, lastID[c]) # <<>>
            /\ RowByID(queries, lastID[c])[1].query = queryText[c]
       /\ pc[c] = "GetAllArticles" => query[c].ID = lastID[c]
       /\ HasQuery(c) =>
            /\ query[c].ID > 0
            /\ query[c].Query = queryText[c]
            /\ RowByID(queries, query[c].ID) =
                 << [id |-> query[c].ID, query |-> queryText[c],
                     created_at |-> query[c].CreatedAt] >>
            /\ \A d \in Clients \ { c } :
                 /\ HasQuery(d) => query[d].ID # query[c].ID
                 /\ pc[d] = "GetQueryByID" => lastID[d] # query[c].ID

\* two requests in CreateQuery at the same time: one has inserted row 1 and
\* got its record back while the row of the other, inserted later, is
\* already there and not yet fetched
C20_Witness ==
  \E c, d \in Clients :
    /\ c # d
    /\ pc[c] = "GetAllArticles"
    /\ query[c].ID = 1
    /\ pc[d] = "GetQueryByID"
    /\ lastID[d] = 2
    /\ Len(queries) = 2

\* ------------------------------------------------------------------------
\* C21
\* ------------------------------------------------------------------------

\* C21: GetAllArticles fails only when its statement fails; otherwise it
\* returns every stored article, in ascending order of id, and for a store
\* without articles a list of length zero and no error; and GET /articles
\* then answers 200 with a JSON array (never null), also for the store
\* without articles.
C21_AllArticles ==
  last.op = "GetAllArticles" =>
    LET found == last.result.elems
    IN  /\ last.err # "" => last.err \in StatementErrors("articles")
        /\ last.err = "" =>
             /\ found = articles
             /\ \A i, j \in 1..Len(found) : i < j => found[i].id < found[j].id
             /\ articles = <<>> => Len(found) = 0
             /\ last.resp.status = 200
             /\ ~last.resp.body.null
             /\ last.resp.body.items = articles

\* ------------------------------------------------------------------------
\* C22
\* ------------------------------------------------------------------------

\* C22: a GetSearchResultByQueryID that succeeds returns the record of a
\* stored row whose query_id is the id asked for, also when the query has
\* several rows; called again for the same query right after, with no call
\* in between, it returns the same record; for a query without a row it
\* returns an error (not found, unless the statement itself failed) and no
\* record.
C22_ByQueryID ==
  last.op = "GetSearchResultByQueryID" =>
    /\ last.err = "" =>
         /\ "result" \in DOMAIN last
         /\ last.result.QueryID = last.queryID
         /\ \E i \in 1..Len(search_results) :
              /\ search_results[i].query_id = last.queryID
              /\ last.result = ScanSearchResult(search_results[i])
    /\ ( /\ last.prev.op = "GetSearchResultByQueryID"
         /\ last.prev.queryID = last.queryID ) =>
         /\ (last.err = "" /\ last.prev.err = "") => last.result = last.prev.result
         /\ last.prev.err = ErrNoRows => last.err # ""
    /\ ResultsOf(last.queryID) = <<>> =>
         /\ last.err \in { ErrNoRows } \cup StatementErrors("search_results")
         /\ "result" \notin DOMAIN last
    /\ last.err = ErrNoRows => ResultsOf(last.queryID) = <<>>

\* query 1 has two results with different lists; it is asked for twice in
\* a row and both calls return the result inserted first
C22_Witness ==
  /\ last.op = "GetSearchResultByQueryID"
  /\ last.queryID = 1
  /\ last.err = ""
  /\ Len(ResultsOf(1)) = 2
  /\ ResultsOf(1)[1].ai_relevant_articles # ResultsOf(1)[2].ai_relevant_articles
  /\ last.prev.op = "GetSearchResultByQueryID"
  /\ last.prev.queryID = 1
  /\ last.prev.err = ""
  /\ last.result = last.prev.result
  /\ last.result.ID = ResultsOf(1)[1].id

\* ------------------------------------------------------------------------
\* C23
\* ------------------------------------------------------------------------

\* the texts that are not empty after trimming whitespace
Acceptable == { q \in QueryTexts : ~IsBlank(q) }

\* the text c's search request submitted
Submitted(c) == request[c].body.query

\* C23: a search request whose text is not empty after trimming is never
\* refused as a bad request; the text handed to ProcessSearchQuery, the text
\* of the Query record and of its stored row, and the query field of the
\* response and of its JSON are each the submitted text, token for token;
\* and every stored row holds a submitted text as it was submitted.
C23_TextVerbatim ==
  /\ \A c \in Clients :
       ( /\ IsSearch(c)
         /\ request[c].body.kind = "query"
         /\ Submitted(c) \in Acceptable ) =>
         /\ resp[c].status # 400
         /\ pc[c] # "done" => queryText[c] = Submitted(c)
         /\ HasQuery(c) =>
              /\ query[c].Query = Submitted(c)
              /\ RowByID(queries, query[c].ID)[1].query = Submitted(c)
         /\ Succeeded(c) =>
              /\ ret[c].response.Query = Submitted(c)
              /\ resp[c].body.query = Submitted(c)
  /\ \A i \in 1..Len(queries) : queries[i].query \in Acceptable

\* the request with the text that begins with a blank, ends with a newline
\* and has the quotes and the SQL fragment in it has been answered 200
C23_Witness ==
  \E c \in Clients :
    /\ Succeeded(c)
    /\ Head(Submitted(c)) = " "
    /\ Submitted(c)[Len(Submitted(c))] = "\n"
    /\ "'" \in Elems(Submitted(c))
    /\ "DROP TABLE articles" \in Elems(Submitted(c))
    /\ resp[c].status = 200
    /\ resp[c].body.query = Submitted(c)
    /\ \E i \in 1..Len(queries) :
         queries[i].id = resp[c].body.query_id /\ queries[i].query = Submitted(c)

\* ------------------------------------------------------------------------
\* C24
\* ------------------------------------------------------------------------

\* the environment asks for the external strategy: USE_MOCK_AI is set, not
\* empty and not exactly "true", and GEMINI_API_KEY is set and not empty
ExternalAsked(env) ==
  /\ "USE_MOCK_AI" \in DOMAIN env
  /\ env["USE_MOCK_AI"] \notin { "", "true" }
  /\ "GEMINI_API_KEY" \in DOMAIN env
  /\ env["GEMINI_API_KEY"] # ""

\* C24: main takes the branch of the external strategy exactly when
\* USE_MOCK_AI is set to a non-empty value other than exactly "true" and
\* GEMINI_API_KEY is not empty; in every other environment it builds the
\* heuristic strategy, which cannot fail and uses no credential; only the
\* external branch can end the start with an error, and the service it
\* builds is the external one.
C24_StrategySelection ==
  last.op = "main" =>
    /\ last.log = "Using Gemini AI service" <=> ExternalAsked(last.env)
    /\ last.log = "Using Mock AI service" <=> ~ExternalAsked(last.env)
    /\ ~ExternalAsked(last.env) => last.service = "mock" /\ last.err = <<>>
    /\ ExternalAsked(last.env) =>
         /\ last.cfg.GeminiKey = last.env["GEMINI_API_KEY"]
         /\ last.service = "gemini" <=> last.err = <<>>
         /\ last.service # "mock"
    /\ DOMAIN last.env = {} => last.service = "mock"

\* USE_MOCK_AI is "TRUE", which is not exactly "true", and the key is set:
\* the external strategy is built
C24_Witness ==
  /\ last.op = "main"
  /\ last.env = [k \in { "USE_MOCK_AI", "GEMINI_API_KEY" } |->
                   IF k = "USE_MOCK_AI" THEN "TRUE" ELSE "key"]
  /\ last.service = "gemini"

\* ------------------------------------------------------------------------
\* C25
\* ------------------------------------------------------------------------

\* this step is the handling of a request as it is received: the whole of
\* GET /articles/{id}, GET /articles and GET /health, and the validation of
\* POST /search-query
ReceiveStep == received' = received + 1

\* this step is a statement of a search request that only reads: the
\* re-reads of steps 1 and 4, GetAllArticles, the analysis, GetArticlesByIDs
ReadStep ==
  \E c \in Clients :
    /\ pc[c] \in { "GetQueryByID", "GetAllArticles", "AnalyzeQuery",
                    "GetSearchResultByID", "GetArticlesByIDs" }
    /\ pc'[c] # pc[c]

\* C25: the articles table is as seeded and no step of any request changes
\* it; the handling of GET /articles/{id}, GET /articles and GET /health, a
\* rejected request and every reading statement of a search (GetAllArticles
\* and GetArticlesByIDs among them) leave queries and search_results as they
\* are; and the rows of queries and search_results are only ever added at
\* the end, none is changed or removed.
C25_Frame ==
  [][ /\ articles = SeededArticles
      /\ articles' = articles
      /\ (ReceiveStep \/ ReadStep) =>
           queries' = queries /\ search_results' = search_results
      /\ IsPrefix(queries, queries')
      /\ IsPrefix(search_results, search_results') ]_vars

\* a search has been answered 200 and has left its Query and SearchResult,
\* and the articles have been listed: the listing is the seeded catalog
C25_Witness ==
  \E c, d \in Clients :
    /\ Succeeded(c)
    /\ resp[c].status = 200
    /\ request[d].route = "GetAllArticles"
    /\ resp[d].status = 200
    /\ resp[d].body.items = SeededArticles
    /\ Len(queries) = 1
    /\ Len(search_results) = 1
    /\ search_results[1].query_id = queries[1].id

\* ------------------------------------------------------------------------
\* C27
\* ------------------------------------------------------------------------

\* this step ends the ProcessSearchQuery of c's request
PipelineEnds(c) ==
  IsSearch(c) /\ pc[c] \notin { "idle", "done" } /\ pc'[c] = "done"

\* the id of the Query row of c's running request: what its INSERT
\* returned, then the id of the record (0 before the INSERT)
QueryIDOf(c) == IF pc[c] = "GetQueryByID" THEN lastID[c] ELSE query[c].ID

\* the SearchResult rows of the query after the step
ResultsAfter(queryID) ==
  SelectSeq(search_results', LAMBDA r : r.query_id = queryID)

\* after the step every SearchResult references a stored Query and no Query
\* has two SearchResults
References ==
  /\ \A i \in 1..Len(search_results') :
       \E j \in 1..Len(queries') : queries'[j].id = search_results'[i].query_id
  /\ \A j \in 1..Len(queries') : Len(ResultsAfter(queries'[j].id)) <= 1

\* C27 as stated: after every step, every SearchResult references a stored
\* Query and every Query has at most one SearchResult; and when a
\* ProcessSearchQuery ends, its Query is without SearchResult exactly when
\* it failed at step 2, 3 or 4.
C27_OneResultPerQuery ==
  [][ /\ References
      /\ \A c \in Clients :
           (PipelineEnds(c) /\ RowByID(queries', QueryIDOf(c)) # <<>>) =>
             ( ResultsAfter(QueryIDOf(c)) = <<>>
                 <=> (ret'[c].err # <<>> /\ Len(calls'[c]) \in { 2, 3, 4 }) )
    ]_vars

\* C27 as amended: after every step, every SearchResult references a stored
\* Query and every Query has at most one SearchResult; when a
\* ProcessSearchQuery ends having stored its Query, the Query has exactly
\* one SearchResult if the request succeeded, failed at step 5, or failed at
\* the re-read that ends step 4, and none if it failed at step 2 or 3, at
\* the INSERT of step 4, or at the re-read that ends step 1.
C27_AtMostOneResult ==
  [][ /\ References
      /\ \A c \in Clients :
           (PipelineEnds(c) /\ RowByID(queries', QueryIDOf(c)) # <<>>) =>
             LET failed == ret'[c].err # <<>>
                 step == Len(calls'[c])
                 results == ResultsAfter(QueryIDOf(c))
             IN  /\ (~failed \/ step = 5) => Len(results) = 1
                 /\ (failed /\ step \in { 2, 3 }) => results = <<>>
                 /\ (failed /\ step = 4) =>
                      IF pc[c] = "CreateSearchResult" THEN results = <<>>
                                                      ELSE Len(results) = 1
                 /\ (failed /\ step = 1) =>
                      pc[c] = "GetQueryByID" /\ results = <<>>
                 /\ results = <<>> => failed /\ step \in 1..4
    ]_vars

\* the only request so far has failed at step 4, at the re-read after the
\* INSERT: its Query and its SearchResult are both stored
C27_Witness ==
  \E c \in Clients :
    /\ received = 1
    /\ Failed(c)
    /\ FailedStep(c) = 4
    /\ Len(queries) = 1
    /\ Len(search_results) = 1
    /\ search_results[1].query_id = queries[1].id

\* ------------------------------------------------------------------------
\* C28
\* ------------------------------------------------------------------------

\* C28: when Initialize returns success, the articles table holds the whole
\* catalog, each of its articles once, under the ids 1 to 10, also when an
\* earlier Initialize of the same store failed in the middle of the
\* seeding.
C28_CompleteCatalog ==
  (last.op = "Initialize" /\ last.err = <<>>) =>
    /\ Len(articles) = Len(Catalog)
    /\ articles = SeededArticles

\* ------------------------------------------------------------------------
\* C29
\* ------------------------------------------------------------------------

\* the ids of the articles in the JSON of c's response, in their order
Shown(c) ==
  [i \in 1..Len(resp[c].body.ai_relevant_articles.items) |->
     resp[c].body.ai_relevant_articles.items[i].id]

\* the id list of the SearchResult stored for the query of c's response
StoredIDs(c) ==
  UnmarshalInts(ResultsOf(resp[c].body.query_id)[1].ai_relevant_articles).elems

\* the place at which the list names the id first
FirstAt(list, id) == CHOOSE i \in 1..Len(list) : list[i] = id /\
                       \A j \in 1..(i - 1) : list[j] # id

\* C29 as stated: in a successful response the articles are those of the
\* ids that the analysis returned and the SearchResult stores, and they
\* come in the order in which that list names them.
C29_SameOrder ==
  \A c \in Clients :
    Succeeded(c) =>
      /\ StoredIDs(c) = aiResult[c].RelevantArticles.elems
      /\ Elems(Shown(c)) = Elems(StoredIDs(c))
      /\ \A i, j \in 1..Len(Shown(c)) :
           i < j => FirstAt(StoredIDs(c), Shown(c)[i])
                      < FirstAt(StoredIDs(c), Shown(c)[j])

\* C29 as amended: in a successful response the articles are those of the
\* ids that the analysis returned and the SearchResult stores, each once,
\* in ascending order of id; with the heuristic strategy that is the order
\* of the stored list.
C29_SameSet ==
  \A c \in Clients :
    Succeeded(c) =>
      /\ StoredIDs(c) = aiResult[c].RelevantArticles.elems
      /\ Elems(Shown(c)) = Elems(StoredIDs(c))
      /\ \A i, j \in 1..Len(Shown(c)) : i < j => Shown(c)[i] < Shown(c)[j]
      /\ aiService = "mock" => Shown(c) = StoredIDs(c)

\* the external model has named article 3 before article 1: the
\* SearchResult stores 3, 1 and the response shows the articles 1, 3
C29_Witness ==
  \E c \in Clients :
    /\ Succeeded(c)
    /\ aiService = "gemini"
    /\ StoredIDs(c) = << 3, 1 >>
    /\ Shown(c) = << 1, 3 >>

\* ------------------------------------------------------------------------
\* C26
\* ------------------------------------------------------------------------

\* the last submit was answered 200 with an empty article list and a
\* summary that has "couldn't find specific information" in it
AnsweredNoResults ==
  /\ submit.settled
  /\ submit.outcome.kind = "resolved"
  /\ ~submit.outcome.data.ai_relevant_articles.null
  /\ submit.outcome.data.ai_relevant_articles.items = <<>>
  /\ Contains(submit.outcome.data.ai_summary_answer,
              "couldn't find specific information")

\* C26: a search answered 200 with an empty article list and a summary that
\* has "couldn't find specific information" in it ends with the no-results
\* message shown and no search error shown.
C26_NoResultsShown ==
  AnsweredNoResults => NoResultsShown /\ ~ErrorShown

\* ------------------------------------------------------------------------
\* C30
\* ------------------------------------------------------------------------

====
